---- MODULE Spec2Model ----
(***************************************************************************)
(* Model of the manga PDF viewer: the filename ordering keys and the      *)
(* directory listings of utils.py, the thumbnail loader thread of          *)
(* thumbnail_loader.py, the thumbnail slots of the bookshelf widget of     *)
(* bookshelf.py and the bookmarks of settings_manager.py.                  *)
(*                                                                         *)
(* A string is a sequence of characters; a character is a one-character    *)
(* TLA+ string, or a token such as "hi:a" for a kana.                      *)
(***************************************************************************)
EXTENDS Integers, Sequences, FiniteSets, TLC

VARIABLES
    files,        \* the directory listing handed to a sort (list of names)
    sortPc,       \* "listed" | "natural" | "locale": which sort has run
    sortResult,   \* [ok |-> BOOLEAN, list |-> sorted names]; ok = FALSE: raised
    directory,    \* the directory that is listed: [state, kinds of its entries]
    docs,         \* the PDF file at each path: [kind, ver]
    cacheDir,     \* the cache directory: "present" | "readonly" | "absent" | "blocked"
    cacheFiles,   \* the files of the cache directory: name -> [writers, bmp, parts]
    loaders,      \* the ThumbnailLoader threads created so far, in creation order
    slots,        \* the thumbnail labels and list items created so far
    queue,        \* events posted to the UI thread, oldest first
    thumbnail_threads,  \* Bookshelf.thumbnail_threads (loader ids)
    tabShown,     \* the bookshelf tab (volume grid) is the current tab
    envChanges,   \* changes made to the disk from outside the program
    bookmarks,    \* SettingsManager.bookmarks: key -> page
    bookmarksFile,  \* ~/.manga_viewer_bookmarks.json: [exists, whole, text]
    saveOk,       \* every save_bookmarks so far wrote the whole file
    current_manga,   \* PDFViewer.current_manga (<<>> is None)
    current_volume,  \* PDFViewer.current_volume (<<>> is None)
    pdf_document,    \* PDFViewer.pdf_document: the fitz document, or NoDocument
    current_page,    \* PDFViewer.current_page
    total_pages,     \* PDFViewer.total_pages
    shelf,        \* the PDF file of each volume the viewer can be given
    viewerOp,     \* the last operation on the viewer and what it displayed
    bookmarks_list,  \* Bookshelf.bookmarks_list: the keys of its items
    favorites,    \* SettingsManager.favorites
    favoritesFile,  \* ~/.manga_viewer_favorites.json: the list it holds
    favOp         \* the last call on the favorites and what it did

sortVars == <<files, sortPc, sortResult, directory>>

thumbVars == <<docs, cacheDir, cacheFiles, loaders, slots, queue,
               thumbnail_threads, tabShown, envChanges>>

bookVars == <<bookmarks, bookmarksFile, saveOk>>

viewVars == <<current_manga, current_volume, pdf_document, current_page,
              total_pages, shelf, viewerOp, bookmarks_list>>

favVars == <<favorites, favoritesFile, favOp>>

vars == <<files, sortPc, sortResult, directory, docs, cacheDir, cacheFiles, loaders,
          slots, queue, thumbnail_threads, tabShown, envChanges, bookmarks,
          bookmarksFile, saveOk, current_manga, current_volume, pdf_document,
          current_page, total_pages, shelf, viewerOp, bookmarks_list, favorites,
          favoritesFile, favOp>>

----------------------------------------------------------------------------
(* Bounds *)

MaxLen == 3                          \* longest name drawn for the sorts

SortAlphabet == {"a", "B", "1", "2"}  \* characters the drawn names are made of

MaxKeyLen == 2                       \* longest string drawn for the keys

KeyAlphabet == {"a", "b", "B", "s", "S", "ls", "1", "sup2",
                "hi:a", "ka:a", "hi:ka", "ka:ka", "hi:tu", "hi:xtu", "hw:a"}

MaxLoaders == 2                      \* loader threads created in one run

MaxEnvChanges == 1                   \* outside changes to the disk in one run

MaxVer == 2                          \* contents a PDF file goes through

MaxPage == 10                        \* highest page index a bookmark is set at

MaxPages == 3                        \* pages of the longest volume the viewer is given

----------------------------------------------------------------------------
(* Characters *)

\* Unicode code point of each character the model uses (Python compares
\* strings by code point). A kana is written as a token: "hi:" or "ka:"
\* (hiragana, katakana), "x" for a small kana, and its sound.
CodePoint(c) ==
    CASE c = "." -> 46  [] c = "/" -> 47  [] c = "0" -> 48  [] c = "1" -> 49
      [] c = "2" -> 50  [] c = "3" -> 51  [] c = "4" -> 52  [] c = "5" -> 53
      [] c = "6" -> 54  [] c = "7" -> 55  [] c = "8" -> 56  [] c = "9" -> 57
      [] c = "B" -> 66  [] c = "S" -> 83  [] c = "V" -> 86  [] c = "a" -> 97
      [] c = "b" -> 98  [] c = "c" -> 99  [] c = "d" -> 100  [] c = "e" -> 101
      [] c = "f" -> 102  [] c = "g" -> 103  [] c = "h" -> 104  [] c = "i" -> 105
      [] c = "j" -> 106  [] c = "l" -> 108  [] c = "o" -> 111  [] c = "p" -> 112
      [] c = "s" -> 115  [] c = "v" -> 118
      [] c = "ls" -> 383        \* U+017F, long s
      [] c = "hi:a" -> 12354  [] c = "hi:i" -> 12356  [] c = "hi:u" -> 12358
      [] c = "hi:e" -> 12360  [] c = "hi:o" -> 12362  [] c = "hi:xa" -> 12353
      [] c = "hi:xi" -> 12355  [] c = "hi:xu" -> 12357  [] c = "hi:xe" -> 12359
      [] c = "hi:xo" -> 12361  [] c = "hi:ka" -> 12363  [] c = "hi:ki" -> 12365
      [] c = "hi:ku" -> 12367  [] c = "hi:ke" -> 12369  [] c = "hi:ko" -> 12371
      [] c = "hi:ga" -> 12364  [] c = "hi:gi" -> 12366  [] c = "hi:gu" -> 12368
      [] c = "hi:ge" -> 12370  [] c = "hi:go" -> 12372  [] c = "hi:sa" -> 12373
      [] c = "hi:si" -> 12375  [] c = "hi:su" -> 12377  [] c = "hi:se" -> 12379
      [] c = "hi:so" -> 12381  [] c = "hi:za" -> 12374  [] c = "hi:zi" -> 12376
      [] c = "hi:zu" -> 12378  [] c = "hi:ze" -> 12380  [] c = "hi:zo" -> 12382
      [] c = "hi:ta" -> 12383  [] c = "hi:ti" -> 12385  [] c = "hi:tu" -> 12388
      [] c = "hi:te" -> 12390  [] c = "hi:to" -> 12392  [] c = "hi:da" -> 12384
      [] c = "hi:di" -> 12386  [] c = "hi:du" -> 12389  [] c = "hi:de" -> 12391
      [] c = "hi:do" -> 12393  [] c = "hi:xtu" -> 12387  [] c = "hi:na" -> 12394
      [] c = "hi:ni" -> 12395  [] c = "hi:nu" -> 12396  [] c = "hi:ne" -> 12397
      [] c = "hi:no" -> 12398  [] c = "hi:ha" -> 12399  [] c = "hi:hi" -> 12402
      [] c = "hi:hu" -> 12405  [] c = "hi:he" -> 12408  [] c = "hi:ho" -> 12411
      [] c = "hi:ba" -> 12400  [] c = "hi:bi" -> 12403  [] c = "hi:bu" -> 12406
      [] c = "hi:be" -> 12409  [] c = "hi:bo" -> 12412  [] c = "hi:pa" -> 12401
      [] c = "hi:pi" -> 12404  [] c = "hi:pu" -> 12407  [] c = "hi:pe" -> 12410
      [] c = "hi:po" -> 12413  [] c = "hi:ma" -> 12414  [] c = "hi:mi" -> 12415
      [] c = "hi:mu" -> 12416  [] c = "hi:me" -> 12417  [] c = "hi:mo" -> 12418
      [] c = "hi:ya" -> 12420  [] c = "hi:yu" -> 12422  [] c = "hi:yo" -> 12424
      [] c = "hi:xya" -> 12419  [] c = "hi:xyu" -> 12421  [] c = "hi:xyo" -> 12423
      [] c = "hi:ra" -> 12425  [] c = "hi:ri" -> 12426  [] c = "hi:ru" -> 12427
      [] c = "hi:re" -> 12428  [] c = "hi:ro" -> 12429  [] c = "hi:wa" -> 12431
      [] c = "hi:wo" -> 12434  [] c = "hi:n" -> 12435  [] c = "hi:xwa" -> 12430
      [] c = "ka:a" -> 12450  [] c = "ka:i" -> 12452  [] c = "ka:u" -> 12454
      [] c = "ka:e" -> 12456  [] c = "ka:o" -> 12458  [] c = "ka:xa" -> 12449
      [] c = "ka:xi" -> 12451  [] c = "ka:xu" -> 12453  [] c = "ka:xe" -> 12455
      [] c = "ka:xo" -> 12457  [] c = "ka:ka" -> 12459  [] c = "ka:ki" -> 12461
      [] c = "ka:ku" -> 12463  [] c = "ka:ke" -> 12465  [] c = "ka:ko" -> 12467
      [] c = "ka:ga" -> 12460  [] c = "ka:gi" -> 12462  [] c = "ka:gu" -> 12464
      [] c = "ka:ge" -> 12466  [] c = "ka:go" -> 12468  [] c = "ka:sa" -> 12469
      [] c = "ka:si" -> 12471  [] c = "ka:su" -> 12473  [] c = "ka:se" -> 12475
      [] c = "ka:so" -> 12477  [] c = "ka:za" -> 12470  [] c = "ka:zi" -> 12472
      [] c = "ka:zu" -> 12474  [] c = "ka:ze" -> 12476  [] c = "ka:zo" -> 12478
      [] c = "ka:ta" -> 12479  [] c = "ka:ti" -> 12481  [] c = "ka:tu" -> 12484
      [] c = "ka:te" -> 12486  [] c = "ka:to" -> 12488  [] c = "ka:da" -> 12480
      [] c = "ka:di" -> 12482  [] c = "ka:du" -> 12485  [] c = "ka:de" -> 12487
      [] c = "ka:do" -> 12489  [] c = "ka:xtu" -> 12483  [] c = "ka:na" -> 12490
      [] c = "ka:ni" -> 12491  [] c = "ka:nu" -> 12492  [] c = "ka:ne" -> 12493
      [] c = "ka:no" -> 12494  [] c = "ka:ha" -> 12495  [] c = "ka:hi" -> 12498
      [] c = "ka:hu" -> 12501  [] c = "ka:he" -> 12504  [] c = "ka:ho" -> 12507
      [] c = "ka:ba" -> 12496  [] c = "ka:bi" -> 12499  [] c = "ka:bu" -> 12502
      [] c = "ka:be" -> 12505  [] c = "ka:bo" -> 12508  [] c = "ka:pa" -> 12497
      [] c = "ka:pi" -> 12500  [] c = "ka:pu" -> 12503  [] c = "ka:pe" -> 12506
      [] c = "ka:po" -> 12509  [] c = "ka:ma" -> 12510  [] c = "ka:mi" -> 12511
      [] c = "ka:mu" -> 12512  [] c = "ka:me" -> 12513  [] c = "ka:mo" -> 12514
      [] c = "ka:ya" -> 12516  [] c = "ka:yu" -> 12518  [] c = "ka:yo" -> 12520
      [] c = "ka:xya" -> 12515  [] c = "ka:xyu" -> 12517  [] c = "ka:xyo" -> 12519
      [] c = "ka:ra" -> 12521  [] c = "ka:ri" -> 12522  [] c = "ka:ru" -> 12523
      [] c = "ka:re" -> 12524  [] c = "ka:ro" -> 12525  [] c = "ka:wa" -> 12527
      [] c = "ka:wo" -> 12530  [] c = "ka:n" -> 12531  [] c = "ka:xwa" -> 12526
      [] c = "hi:wi" -> 12432   \* U+3090, not in japanese_char_order
      [] c = "ka:wi" -> 12528   \* U+30F0, not in japanese_char_order
      [] c = "hw:a" -> 65393    \* U+FF71, halfwidth katakana a
      [] c = "sup2" -> 178      \* U+00B2, superscript two

\* str.lower() on one character.
LowerChar(c) ==
    CASE c = "B" -> "b"
      [] c = "S" -> "s"
      [] c = "V" -> "v"
      [] OTHER -> c

\* The characters \d matches and int() reads: the decimal digits.
IsDecimalChar(c) == c \in {"0", "1", "2", "3", "4", "5", "6", "7", "8", "9"}

\* str.isdigit() on one character: the decimal digits and the other
\* characters of digit type, such as the superscript two.
IsDigitChar(c) == IsDecimalChar(c) \/ c = "sup2"

DigitValue(c) == CodePoint(c) - 48

\* Lower that leaves the string as it is.
LowerKept(s) == s

\* str.lower()
Lower(s) == [i \in 1..Len(s) |-> LowerChar(s[i])]

\* int(text) of a run of decimal digits.
RECURSIVE IntOf(_)
IntOf(s) ==
    IF s = <<>> THEN 0
    ELSE 10 * IntOf(SubSeq(s, 1, Len(s) - 1)) + DigitValue(s[Len(s)])

\* Python's < on two str values: code point by code point, a proper prefix
\* is smaller.
RECURSIVE TextLess(_, _)
TextLess(s, t) ==
    IF t = <<>> THEN FALSE
    ELSE IF s = <<>> THEN TRUE
    ELSE IF s[1] # t[1] THEN CodePoint(s[1]) < CodePoint(t[1])
    ELSE TextLess(Tail(s), Tail(t))

----------------------------------------------------------------------------
(* natural_sort_key *)

\* Length of the longest prefix of s made of digits (wantDigit) or of
\* non-digits.
RECURSIVE RunLen(_, _)
RunLen(s, wantDigit) ==
    IF s = <<>> \/ IsDecimalChar(s[1]) # wantDigit THEN 0
    ELSE 1 + RunLen(Tail(s), wantDigit)

\* re.split(r'(\d+)', s): text, digit run, text, ..., text; the pieces at
\* odd positions are the (possibly empty) stretches between digit runs.
RECURSIVE SplitDigits(_)
SplitDigits(s) ==
    LET n == RunLen(s, FALSE)
        rest == SubSeq(s, n + 1, Len(s))
        d == RunLen(rest, TRUE)
    IN  IF rest = <<>> THEN << SubSeq(s, 1, n) >>
        ELSE << SubSeq(s, 1, n), SubSeq(rest, 1, d) >>
             \o SplitDigits(SubSeq(rest, d + 1, Len(rest)))

\* text.isdigit() on a piece of the split.
IsDigitText(t) == t # <<>> /\ \A i \in 1..Len(t) : IsDigitChar(t[i])

\* KeyPart without the conversion of digit runs to integers.
KeyPartAsText(t) == [int |-> FALSE, n |-> 0, t |-> Lower(t)]

\* One component of the key: int(text) or text.lower().
KeyPart(t) ==
    IF IsDigitText(t) THEN [int |-> TRUE, n |-> IntOf(t), t |-> <<>>]
    ELSE [int |-> FALSE, n |-> 0, t |-> Lower(t)]

\* int(text) raises ValueError: text.isdigit() holds and text has a
\* character int() does not read.
IntRaises(t) == IsDigitText(t) /\ \E i \in 1..Len(t) : ~IsDecimalChar(t[i])

\* The key left by an exception inside a key function.
RaisedKey == [kind |-> "raised", items |-> <<>>, str |-> <<>>]

NaturalSortKey(s) ==
    LET parts == SplitDigits(s)
    IN  IF \E i \in 1..Len(parts) : IntRaises(parts[i]) THEN RaisedKey
        ELSE [kind |-> "list",
              items |-> [i \in 1..Len(parts) |-> KeyPart(parts[i])],
              str |-> <<>>]

----------------------------------------------------------------------------
(* japanese_sort_key *)

\* JapaneseCharOrder with an empty table: every character is its own
\* fragment.
JapaneseCharOrderSelf(c) == << c >>

\* japanese_char_order: the bucket of each kana of the table; any other
\* character is its own fragment (lines 111-115).
JapaneseCharOrder(c) ==
    CASE c = "hi:a" -> <<"a", "0", "1">>  [] c = "hi:i" -> <<"a", "0", "2">>
      [] c = "hi:u" -> <<"a", "0", "3">>  [] c = "hi:e" -> <<"a", "0", "4">>
      [] c = "hi:o" -> <<"a", "0", "5">>  [] c = "hi:xa" -> <<"a", "0", "1">>
      [] c = "hi:xi" -> <<"a", "0", "2">>  [] c = "hi:xu" -> <<"a", "0", "3">>
      [] c = "hi:xe" -> <<"a", "0", "4">>  [] c = "hi:xo" -> <<"a", "0", "5">>
      [] c = "hi:ka" -> <<"b", "0", "1">>  [] c = "hi:ki" -> <<"b", "0", "2">>
      [] c = "hi:ku" -> <<"b", "0", "3">>  [] c = "hi:ke" -> <<"b", "0", "4">>
      [] c = "hi:ko" -> <<"b", "0", "5">>  [] c = "hi:ga" -> <<"b", "0", "6">>
      [] c = "hi:gi" -> <<"b", "0", "7">>  [] c = "hi:gu" -> <<"b", "0", "8">>
      [] c = "hi:ge" -> <<"b", "0", "9">>  [] c = "hi:go" -> <<"b", "1", "0">>
      [] c = "hi:sa" -> <<"c", "0", "1">>  [] c = "hi:si" -> <<"c", "0", "2">>
      [] c = "hi:su" -> <<"c", "0", "3">>  [] c = "hi:se" -> <<"c", "0", "4">>
      [] c = "hi:so" -> <<"c", "0", "5">>  [] c = "hi:za" -> <<"c", "0", "6">>
      [] c = "hi:zi" -> <<"c", "0", "7">>  [] c = "hi:zu" -> <<"c", "0", "8">>
      [] c = "hi:ze" -> <<"c", "0", "9">>  [] c = "hi:zo" -> <<"c", "1", "0">>
      [] c = "hi:ta" -> <<"d", "0", "1">>  [] c = "hi:ti" -> <<"d", "0", "2">>
      [] c = "hi:tu" -> <<"d", "0", "3">>  [] c = "hi:te" -> <<"d", "0", "4">>
      [] c = "hi:to" -> <<"d", "0", "5">>  [] c = "hi:da" -> <<"d", "0", "6">>
      [] c = "hi:di" -> <<"d", "0", "7">>  [] c = "hi:du" -> <<"d", "0", "8">>
      [] c = "hi:de" -> <<"d", "0", "9">>  [] c = "hi:do" -> <<"d", "1", "0">>
      [] c = "hi:xtu" -> <<"d", "0", "3">>  [] c = "hi:na" -> <<"e", "0", "1">>
      [] c = "hi:ni" -> <<"e", "0", "2">>  [] c = "hi:nu" -> <<"e", "0", "3">>
      [] c = "hi:ne" -> <<"e", "0", "4">>  [] c = "hi:no" -> <<"e", "0", "5">>
      [] c = "hi:ha" -> <<"f", "0", "1">>  [] c = "hi:hi" -> <<"f", "0", "2">>
      [] c = "hi:hu" -> <<"f", "0", "3">>  [] c = "hi:he" -> <<"f", "0", "4">>
      [] c = "hi:ho" -> <<"f", "0", "5">>  [] c = "hi:ba" -> <<"f", "0", "6">>
      [] c = "hi:bi" -> <<"f", "0", "7">>  [] c = "hi:bu" -> <<"f", "0", "8">>
      [] c = "hi:be" -> <<"f", "0", "9">>  [] c = "hi:bo" -> <<"f", "1", "0">>
      [] c = "hi:pa" -> <<"f", "1", "1">>  [] c = "hi:pi" -> <<"f", "1", "2">>
      [] c = "hi:pu" -> <<"f", "1", "3">>  [] c = "hi:pe" -> <<"f", "1", "4">>
      [] c = "hi:po" -> <<"f", "1", "5">>  [] c = "hi:ma" -> <<"g", "0", "1">>
      [] c = "hi:mi" -> <<"g", "0", "2">>  [] c = "hi:mu" -> <<"g", "0", "3">>
      [] c = "hi:me" -> <<"g", "0", "4">>  [] c = "hi:mo" -> <<"g", "0", "5">>
      [] c = "hi:ya" -> <<"h", "0", "1">>  [] c = "hi:yu" -> <<"h", "0", "2">>
      [] c = "hi:yo" -> <<"h", "0", "3">>  [] c = "hi:xya" -> <<"h", "0", "1">>
      [] c = "hi:xyu" -> <<"h", "0", "2">>  [] c = "hi:xyo" -> <<"h", "0", "3">>
      [] c = "hi:ra" -> <<"i", "0", "1">>  [] c = "hi:ri" -> <<"i", "0", "2">>
      [] c = "hi:ru" -> <<"i", "0", "3">>  [] c = "hi:re" -> <<"i", "0", "4">>
      [] c = "hi:ro" -> <<"i", "0", "5">>  [] c = "hi:wa" -> <<"j", "0", "1">>
      [] c = "hi:wo" -> <<"j", "0", "2">>  [] c = "hi:n" -> <<"j", "0", "3">>
      [] c = "hi:xwa" -> <<"j", "0", "1">>  [] c = "ka:a" -> <<"a", "0", "1">>
      [] c = "ka:i" -> <<"a", "0", "2">>  [] c = "ka:u" -> <<"a", "0", "3">>
      [] c = "ka:e" -> <<"a", "0", "4">>  [] c = "ka:o" -> <<"a", "0", "5">>
      [] c = "ka:xa" -> <<"a", "0", "1">>  [] c = "ka:xi" -> <<"a", "0", "2">>
      [] c = "ka:xu" -> <<"a", "0", "3">>  [] c = "ka:xe" -> <<"a", "0", "4">>
      [] c = "ka:xo" -> <<"a", "0", "5">>  [] c = "ka:ka" -> <<"b", "0", "1">>
      [] c = "ka:ki" -> <<"b", "0", "2">>  [] c = "ka:ku" -> <<"b", "0", "3">>
      [] c = "ka:ke" -> <<"b", "0", "4">>  [] c = "ka:ko" -> <<"b", "0", "5">>
      [] c = "ka:ga" -> <<"b", "0", "6">>  [] c = "ka:gi" -> <<"b", "0", "7">>
      [] c = "ka:gu" -> <<"b", "0", "8">>  [] c = "ka:ge" -> <<"b", "0", "9">>
      [] c = "ka:go" -> <<"b", "1", "0">>  [] c = "ka:sa" -> <<"c", "0", "1">>
      [] c = "ka:si" -> <<"c", "0", "2">>  [] c = "ka:su" -> <<"c", "0", "3">>
      [] c = "ka:se" -> <<"c", "0", "4">>  [] c = "ka:so" -> <<"c", "0", "5">>
      [] c = "ka:za" -> <<"c", "0", "6">>  [] c = "ka:zi" -> <<"c", "0", "7">>
      [] c = "ka:zu" -> <<"c", "0", "8">>  [] c = "ka:ze" -> <<"c", "0", "9">>
      [] c = "ka:zo" -> <<"c", "1", "0">>  [] c = "ka:ta" -> <<"d", "0", "1">>
      [] c = "ka:ti" -> <<"d", "0", "2">>  [] c = "ka:tu" -> <<"d", "0", "3">>
      [] c = "ka:te" -> <<"d", "0", "4">>  [] c = "ka:to" -> <<"d", "0", "5">>
      [] c = "ka:da" -> <<"d", "0", "6">>  [] c = "ka:di" -> <<"d", "0", "7">>
      [] c = "ka:du" -> <<"d", "0", "8">>  [] c = "ka:de" -> <<"d", "0", "9">>
      [] c = "ka:do" -> <<"d", "1", "0">>  [] c = "ka:xtu" -> <<"d", "0", "3">>
      [] c = "ka:na" -> <<"e", "0", "1">>  [] c = "ka:ni" -> <<"e", "0", "2">>
      [] c = "ka:nu" -> <<"e", "0", "3">>  [] c = "ka:ne" -> <<"e", "0", "4">>
      [] c = "ka:no" -> <<"e", "0", "5">>  [] c = "ka:ha" -> <<"f", "0", "1">>
      [] c = "ka:hi" -> <<"f", "0", "2">>  [] c = "ka:hu" -> <<"f", "0", "3">>
      [] c = "ka:he" -> <<"f", "0", "4">>  [] c = "ka:ho" -> <<"f", "0", "5">>
      [] c = "ka:ba" -> <<"f", "0", "6">>  [] c = "ka:bi" -> <<"f", "0", "7">>
      [] c = "ka:bu" -> <<"f", "0", "8">>  [] c = "ka:be" -> <<"f", "0", "9">>
      [] c = "ka:bo" -> <<"f", "1", "0">>  [] c = "ka:pa" -> <<"f", "1", "1">>
      [] c = "ka:pi" -> <<"f", "1", "2">>  [] c = "ka:pu" -> <<"f", "1", "3">>
      [] c = "ka:pe" -> <<"f", "1", "4">>  [] c = "ka:po" -> <<"f", "1", "5">>
      [] c = "ka:ma" -> <<"g", "0", "1">>  [] c = "ka:mi" -> <<"g", "0", "2">>
      [] c = "ka:mu" -> <<"g", "0", "3">>  [] c = "ka:me" -> <<"g", "0", "4">>
      [] c = "ka:mo" -> <<"g", "0", "5">>  [] c = "ka:ya" -> <<"h", "0", "1">>
      [] c = "ka:yu" -> <<"h", "0", "2">>  [] c = "ka:yo" -> <<"h", "0", "3">>
      [] c = "ka:xya" -> <<"h", "0", "1">>  [] c = "ka:xyu" -> <<"h", "0", "2">>
      [] c = "ka:xyo" -> <<"h", "0", "3">>  [] c = "ka:ra" -> <<"i", "0", "1">>
      [] c = "ka:ri" -> <<"i", "0", "2">>  [] c = "ka:ru" -> <<"i", "0", "3">>
      [] c = "ka:re" -> <<"i", "0", "4">>  [] c = "ka:ro" -> <<"i", "0", "5">>
      [] c = "ka:wa" -> <<"j", "0", "1">>  [] c = "ka:wo" -> <<"j", "0", "2">>
      [] c = "ka:n" -> <<"j", "0", "3">>  [] c = "ka:xwa" -> <<"j", "0", "1">>
      [] OTHER -> << c >>

\* The keys of japanese_char_order.
TableKana ==
    { "hi:a", "hi:i", "hi:u", "hi:e", "hi:o", "hi:xa", "hi:xi",
      "hi:xu", "hi:xe", "hi:xo", "hi:ka", "hi:ki", "hi:ku", "hi:ke",
      "hi:ko", "hi:ga", "hi:gi", "hi:gu", "hi:ge", "hi:go", "hi:sa",
      "hi:si", "hi:su", "hi:se", "hi:so", "hi:za", "hi:zi", "hi:zu",
      "hi:ze", "hi:zo", "hi:ta", "hi:ti", "hi:tu", "hi:te", "hi:to",
      "hi:da", "hi:di", "hi:du", "hi:de", "hi:do", "hi:xtu", "hi:na",
      "hi:ni", "hi:nu", "hi:ne", "hi:no", "hi:ha", "hi:hi", "hi:hu",
      "hi:he", "hi:ho", "hi:ba", "hi:bi", "hi:bu", "hi:be", "hi:bo",
      "hi:pa", "hi:pi", "hi:pu", "hi:pe", "hi:po", "hi:ma", "hi:mi",
      "hi:mu", "hi:me", "hi:mo", "hi:ya", "hi:yu", "hi:yo", "hi:xya",
      "hi:xyu", "hi:xyo", "hi:ra", "hi:ri", "hi:ru", "hi:re", "hi:ro",
      "hi:wa", "hi:wo", "hi:n", "hi:xwa", "ka:a", "ka:i", "ka:u",
      "ka:e", "ka:o", "ka:xa", "ka:xi", "ka:xu", "ka:xe", "ka:xo",
      "ka:ka", "ka:ki", "ka:ku", "ka:ke", "ka:ko", "ka:ga", "ka:gi",
      "ka:gu", "ka:ge", "ka:go", "ka:sa", "ka:si", "ka:su", "ka:se",
      "ka:so", "ka:za", "ka:zi", "ka:zu", "ka:ze", "ka:zo", "ka:ta",
      "ka:ti", "ka:tu", "ka:te", "ka:to", "ka:da", "ka:di", "ka:du",
      "ka:de", "ka:do", "ka:xtu", "ka:na", "ka:ni", "ka:nu", "ka:ne",
      "ka:no", "ka:ha", "ka:hi", "ka:hu", "ka:he", "ka:ho", "ka:ba",
      "ka:bi", "ka:bu", "ka:be", "ka:bo", "ka:pa", "ka:pi", "ka:pu",
      "ka:pe", "ka:po", "ka:ma", "ka:mi", "ka:mu", "ka:me", "ka:mo",
      "ka:ya", "ka:yu", "ka:yo", "ka:xya", "ka:xyu", "ka:xyo",
      "ka:ra", "ka:ri", "ka:ru", "ka:re", "ka:ro", "ka:wa", "ka:wo",
      "ka:n", "ka:xwa" }

\* JoinFragments with no table: every character is its own fragment.
JoinFragmentsRaw(s) == s

\* JoinFragments that looks up the first character only.
JoinFragmentsOfFirst(s) ==
    IF s = <<>> THEN <<>> ELSE JapaneseCharOrder(s[1]) \o Tail(s)

\* ''.join(result) over the fragments of the characters (lines 108-117).
RECURSIVE JoinFragments(_)
JoinFragments(s) ==
    IF s = <<>> THEN <<>>
    ELSE JapaneseCharOrder(s[1]) \o JoinFragments(Tail(s))

\* unicodedata.normalize('NFKC', s): of the characters of the model the
\* halfwidth katakana and the superscript two have a compatibility
\* decomposition (to the fullwidth katakana and to the digit two).
NormalizeChar(c) ==
    CASE c = "hw:a" -> "ka:a"
      [] c = "sup2" -> "2"
      [] OTHER -> c

Normalize(s) == [i \in 1..Len(s) |-> NormalizeChar(s[i])]

JapaneseSortKey(s) ==
    LET low == Lower(s)
    IN  IF \E i \in 1..Len(low) : IsDigitChar(low[i])
        THEN NaturalSortKey(low)
        ELSE [kind |-> "str", items |-> <<>>, str |-> JoinFragments(Normalize(low))]

----------------------------------------------------------------------------
(* Comparing keys and sorting *)

\* Python's < on two key components; "E" is the TypeError of int < str.
PartLess(x, y) ==
    IF x.int /\ y.int THEN (IF x.n < y.n THEN "T" ELSE "F")
    ELSE IF ~x.int /\ ~y.int THEN (IF TextLess(x.t, y.t) THEN "T" ELSE "F")
    ELSE "E"

\* Python's < on two lists: the first position where the items differ
\* decides, a proper prefix is smaller.
RECURSIVE ListLess(_, _)
ListLess(k1, k2) ==
    IF k2 = <<>> THEN "F"
    ELSE IF k1 = <<>> THEN "T"
    ELSE IF k1[1] # k2[1] THEN PartLess(k1[1], k2[1])
    ELSE ListLess(Tail(k1), Tail(k2))

\* Python's < on two sort keys: list < list, str < str, and the TypeError
\* of comparing a list with a str.
KeyLess(k1, k2) ==
    IF k1.kind = "list" /\ k2.kind = "list" THEN ListLess(k1.items, k2.items)
    ELSE IF k1.kind = "str" /\ k2.kind = "str"
         THEN (IF TextLess(k1.str, k2.str) THEN "T" ELSE "F")
    ELSE "E"

\* sorted() computes each key once, and raises what a key function raises.
KeysRaise(pairs) == \E i \in 1..Len(pairs) : pairs[i].key.kind = "raised"

\* sorted() computes each key once and sorts the (key, name) pairs by key.
\* Insert pair x into the sorted pairs of r, after the pairs that are not
\* greater (the sort is stable). ok = FALSE when a comparison raised.
RECURSIVE InsertPair(_, _)
InsertPair(r, x) ==
    IF ~r.ok THEN r
    ELSE IF r.list = <<>> THEN [ok |-> TRUE, list |-> << x >>]
    ELSE LET last == r.list[Len(r.list)]
             c == KeyLess(x.key, last.key)
         IN  IF c = "E" THEN [ok |-> FALSE, list |-> <<>>]
             ELSE IF c = "F" THEN [ok |-> TRUE, list |-> Append(r.list, x)]
             ELSE LET front == InsertPair([ok |-> TRUE,
                                   list |-> SubSeq(r.list, 1, Len(r.list) - 1)], x)
                  IN  IF front.ok
                      THEN [ok |-> TRUE, list |-> Append(front.list, last)]
                      ELSE front

RECURSIVE SortPairs(_)
SortPairs(pairs) ==
    IF KeysRaise(pairs) THEN [ok |-> FALSE, list |-> <<>>]
    ELSE IF pairs = <<>> THEN [ok |-> TRUE, list |-> <<>>]
    ELSE InsertPair(SortPairs(SubSeq(pairs, 1, Len(pairs) - 1)), pairs[Len(pairs)])

\* The names of sorted pairs.
NamesOf(r) == [ok |-> r.ok, list |-> [i \in 1..Len(r.list) |-> r.list[i].name]]

\* key=lambda x: natural_sort_key(x.lower()) of display_volumes
VolumeKey(x) == NaturalSortKey(Lower(x))

\* files.sort(key=lambda x: natural_sort_key(x.lower()))
SortedNatural(names) ==
    NamesOf(SortPairs([i \in 1..Len(names) |->
                         [name |-> names[i], key |-> VolumeKey(names[i])]]))

\* sorted(files, key=japanese_sort_key)
SortedLocale(names) ==
    NamesOf(SortPairs([i \in 1..Len(names) |->
                         [name |-> names[i], key |-> JapaneseSortKey(names[i])]]))

----------------------------------------------------------------------------
(* The sorts of the directory listings *)

\* The names a listing is drawn from.
Names == UNION { [1..n -> SortAlphabet] : n \in 0..MaxLen }

NoResult == [ok |-> TRUE, list |-> <<>>]

\* What the listed path is: "missing", "file" (not a directory),
\* "unreadable" (a directory os.listdir may not read) or "ok"; and for each
\* entry of a readable directory what it is: "manga" (a directory holding a
\* PDF), "plain" (a file, or a directory without a PDF) or "locked" (a
\* directory os.listdir may not read).
DirStates == {"missing", "file", "unreadable", "ok"}

EntryKinds == {"manga", "plain", "locked"}

Readable(kinds) == [state |-> "ok", kinds |-> kinds]

Directories ==
    { [state |-> st, kinds |-> <<>>] : st \in DirStates \ {"ok"} }
    \cup { Readable(k) : k \in [1..2 -> EntryKinds] }

\* A function left by an exception.
RaisedResult == [ok |-> FALSE, list |-> <<>>]

\* files.sort(key=lambda x: natural_sort_key(x.lower())) in display_volumes
SortVolumes ==
    /\ sortPc = "listed"
    /\ sortPc' = "natural"
    /\ sortResult' = SortedNatural(files)
    /\ UNCHANGED <<files, directory, thumbVars, bookVars, viewVars, favVars>>

\* get_pdf_files(directory): [] unless the path is a directory (line 129);
\* os.listdir raises for a directory that may not be read (line 132); the
\* names ending in .pdf are sorted by the locale key (line 133).
GetPdfFilesOf(dir, listing) ==
    IF dir.state \in {"missing", "file"} THEN NoResult
    ELSE IF dir.state = "unreadable" THEN RaisedResult
    ELSE SortedLocale(listing)

\* The entries get_manga_directories keeps: os.path.isdir(full_path) and
\* is_valid_manga_directory(full_path)  (lines 168-171).
RECURSIVE MangaEntries(_, _)
MangaEntries(listing, kinds) ==
    IF listing = <<>> THEN <<>>
    ELSE (IF kinds[1] = "manga" THEN << listing[1] >> ELSE <<>>)
         \o MangaEntries(Tail(listing), Tail(kinds))

\* get_manga_directories(root_directory): [] unless the path is a directory
\* (line 164); os.listdir raises for a root that may not be read (line 168)
\* and, inside is_valid_manga_directory (line 148), for an entry that may
\* not be read; the entries kept are sorted by the locale key (line 174).
GetMangaDirectoriesOf(dir, listing) ==
    IF dir.state \in {"missing", "file"} THEN NoResult
    ELSE IF dir.state = "unreadable" THEN RaisedResult
    ELSE IF \E i \in 1..Len(dir.kinds) : dir.kinds[i] = "locked" THEN RaisedResult
    ELSE SortedLocale(MangaEntries(listing, dir.kinds))

GetPdfFiles ==
    /\ sortPc = "listed"
    /\ sortPc' = "locale"
    /\ sortResult' = GetPdfFilesOf(directory, files)
    /\ UNCHANGED <<files, directory, thumbVars, bookVars, viewVars, favVars>>

GetMangaDirectories ==
    /\ sortPc = "listed"
    /\ sortPc' = "mangas"
    /\ sortResult' = GetMangaDirectoriesOf(directory, files)
    /\ UNCHANGED <<files, directory, thumbVars, bookVars, viewVars, favVars>>

NextSort == SortVolumes \/ GetPdfFiles \/ GetMangaDirectories

----------------------------------------------------------------------------
(* The keys of pairs of strings *)

\* The strings a key is computed for: every kana of the table by itself,
\* two kana outside the table, and the short strings over KeyAlphabet.
KeyNames ==
    { << c >> : c \in TableKana \cup {"hi:wi", "ka:wi"} }
    \cup UNION { [1..n -> KeyAlphabet] : n \in 0..MaxKeyLen }

KeysOf(k1, k2) == [ok |-> TRUE, list |-> << k1, k2 >>]

\* natural_sort_key applied to both strings.
NaturalKeys ==
    /\ sortPc = "listed"
    /\ sortPc' = "nkeys"
    /\ sortResult' = KeysOf(NaturalSortKey(files[1]), NaturalSortKey(files[2]))
    /\ UNCHANGED <<files, directory, thumbVars, bookVars, viewVars, favVars>>

\* japanese_sort_key applied to both strings.
LocaleKeys ==
    /\ sortPc = "listed"
    /\ sortPc' = "lkeys"
    /\ sortResult' = KeysOf(JapaneseSortKey(files[1]), JapaneseSortKey(files[2]))
    /\ UNCHANGED <<files, directory, thumbVars, bookVars, viewVars, favVars>>

NextKey == NaturalKeys \/ LocaleKeys

----------------------------------------------------------------------------
(* Disk: documents and the thumbnail cache *)

\* The manga directory of the model and the PDF files it can hold.
MangaPath == <<"m">>

VolumeFiles == { <<"v", "2">>, <<"v", "1", "0">> }

\* os.path.join(manga_path, pdf_file)
PdfPath(manga_path, pdf_file) == manga_path \o <<"/">> \o pdf_file

Paths == { PdfPath(MangaPath, f) : f \in VolumeFiles }

\* What a path holds: no file, a file fitz cannot open, a document without
\* pages, a document whose first page does not load, or a good document
\* with content number ver.
DocKinds == {"missing", "corrupt", "zero", "badpage", "ok"}

Doc(kind, ver) == [kind |-> kind, ver |-> ver]

\* QPixmap(): the null pixmap.
Empty == [src |-> <<>>, ver |-> 0]

\* The pixmap of page 0 of the document with content ver at path.
Bitmap(path, ver) == [src |-> path, ver |-> ver]

\* hashlib.md5(pdf_path.encode()).hexdigest(): a digest that depends on the
\* path string only and differs for different paths.
Md5Hex(pdf_path) == <<"md5", pdf_path>>

\* CacheFileName hashing the manga directory instead of the file's path.
CacheFileNameOfDir(pdf_path) == <<Md5Hex(MangaPath), ".png">>

\* os.path.join(cache_dir, md5(...).hexdigest() + ".png"), as a name inside
\* the cache directory.
CacheFileName(pdf_path) == <<Md5Hex(pdf_path), ".png">>

\* os.path.exists(cache_dir)
CacheDirExists == cacheDir \in {"present", "readonly"}

\* os.path.exists(cache_file)
CacheFileExists(name) == CacheDirExists /\ name \in DOMAIN cacheFiles

\* LoadPixmap checking the cached file against the document: the page is
\* rendered again from what the path holds now.
LoadPixmapRendered(name) ==
    IF /\ CacheFileExists(name) /\ cacheFiles[name].writers = {}
       /\ cacheFiles[name].bmp # Empty
    THEN Bitmap(cacheFiles[name].bmp.src, docs[cacheFiles[name].bmp.src].ver)
    ELSE Empty

\* QPixmap(cache_file): null unless the file is there and completely written
\* (bmp is Empty while a writer is at work, and in a file whose bytes come
\* from different pixmaps).
LoadPixmap(name) ==
    IF CacheFileExists(name) /\ cacheFiles[name].writers = {}
    THEN cacheFiles[name].bmp
    ELSE Empty

\* A file of the cache directory:
\*   writers  the loaders that have it open for writing
\*   bmp      the pixmap a reader decodes from it
\*   parts    the pixmaps written into it since it last had no writer
NoFile == [writers |-> {}, bmp |-> Empty, parts |-> {}]

\* The empty cache directory.
NoFiles == [n \in {} |-> NoFile]

\* f with name mapped to v (name may be new).
Put(f, name, v) ==
    [n \in DOMAIN f \cup {name} |-> IF n = name THEN v ELSE f[n]]

----------------------------------------------------------------------------
(* ThumbnailLoader *)

LoaderIds == 1..Len(loaders)

\* ThumbnailLoader(pdf_path, cache_dir, parent) with its thumbnail_loaded
\* signal connected to the setter of one slot; the thread is started.
\*   pc      position in run
\*   handle  the fitz document: "none" | "open" | "closed"
\*   pix     the rendered pixmap
\*   emits   number of thumbnail_loaded emissions, result the last one
\*   hit     run took the cached file; warm: the file held a whole
\*           thumbnail when QPixmap(cache_file) read it
\*   saved   pixmap.save wrote the cache file
\*   born    the number of outside changes to the disk before the request
\*   raised  the except clause ran
\*   created names of the cache files this run created
\*   handled what the connected setter did with each delivery, and the
\*           state of the slot it was called with
NewLoader(pdf_path, slot) ==
    [path |-> pdf_path, slot |-> slot, pc |-> "start", handle |-> "none",
     pix |-> Empty, emits |-> 0, result |-> Empty,
     hit |-> FALSE, warm |-> FALSE, saved |-> FALSE, raised |-> FALSE,
     created |-> {}, born |-> envChanges, handled |-> <<>>]

\* self.thumbnail_loaded.emit(self.pdf_path, pixmap): the call is queued to
\* the UI thread.
EmitEvent(l, pixmap) == [type |-> "call", loader |-> l, pix |-> pixmap, slots |-> {}]

\* Raised without the except clause: the exception ends run, nothing is
\* emitted.
RaisedUncaught(l) ==
    /\ loaders' = [loaders EXCEPT ![l].pc = "done", ![l].raised = TRUE]
    /\ UNCHANGED queue

\* except Exception: emit the empty pixmap; run ends (lines 68-71).
Raised(l) ==
    /\ loaders' = [loaders EXCEPT ![l].pc = "done", ![l].raised = TRUE,
                                  ![l].emits = @ + 1, ![l].result = Empty]
    /\ queue' = Append(queue, EmitEvent(l, Empty))

\* if not os.path.exists(self.cache_dir)  (line 31)
CheckCacheDir(l) ==
    /\ loaders[l].pc = "start"
    /\ loaders' = [loaders EXCEPT ![l].pc =
                      IF CacheDirExists THEN "check" ELSE "mkdir"]
    /\ UNCHANGED <<sortVars, bookVars, viewVars, favVars, docs, cacheDir, cacheFiles, slots, queue, thumbnail_threads,
                   tabShown, envChanges>>

\* MakeDirs with os.makedirs ahead of the try block: its exception ends
\* run with nothing emitted.
MakeDirsOutsideTry(l) ==
    /\ loaders[l].pc = "mkdir"
    /\ IF cacheDir = "absent"
       THEN /\ cacheDir' = "present"
            /\ loaders' = [loaders EXCEPT ![l].pc = "check"]
       ELSE /\ loaders' = [loaders EXCEPT ![l].pc = "done", ![l].raised = TRUE]
            /\ UNCHANGED cacheDir
    /\ UNCHANGED <<sortVars, bookVars, viewVars, favVars, docs, cacheFiles, slots, queue, thumbnail_threads,
                   tabShown, envChanges>>

\* os.makedirs(self.cache_dir)  (line 32): FileExistsError when the
\* directory has appeared since the check, PermissionError when it cannot
\* be created.
MakeDirs(l) ==
    /\ loaders[l].pc = "mkdir"
    /\ IF cacheDir = "absent"
       THEN /\ cacheDir' = "present"
            /\ loaders' = [loaders EXCEPT ![l].pc = "check"]
            /\ UNCHANGED queue
       ELSE /\ Raised(l)
            /\ UNCHANGED cacheDir
    /\ UNCHANGED <<sortVars, bookVars, viewVars, favVars, docs, cacheFiles, slots, thumbnail_threads, tabShown, envChanges>>

\* if os.path.exists(cache_file)  (lines 35-41)
CheckCache(l) ==
    /\ loaders[l].pc = "check"
    /\ loaders' = [loaders EXCEPT ![l].pc =
                      IF CacheFileExists(CacheFileName(loaders[l].path))
                      THEN "load" ELSE "open"]
    /\ UNCHANGED <<sortVars, bookVars, viewVars, favVars, docs, cacheDir, cacheFiles, slots, queue, thumbnail_threads,
                   tabShown, envChanges>>

\* pixmap = QPixmap(cache_file); emit; return  (lines 42-44)
LoadCache(l) ==
    /\ loaders[l].pc = "load"
    /\ LET name == CacheFileName(loaders[l].path)
           pixmap == LoadPixmap(name)
       IN  /\ loaders' = [loaders EXCEPT ![l].pc = "done", ![l].hit = TRUE,
                                         ![l].warm = pixmap # Empty,
                                         ![l].pix = pixmap,
                                         ![l].emits = @ + 1, ![l].result = pixmap]
           /\ queue' = Append(queue, EmitEvent(l, pixmap))
    /\ UNCHANGED <<sortVars, bookVars, viewVars, favVars, docs, cacheDir, cacheFiles, slots, thumbnail_threads, tabShown,
                   envChanges>>

\* doc = fitz.open(self.pdf_path); if doc.page_count > 0: page =
\* doc.load_page(0) ... pixmap = QPixmap.fromImage(qimage)  (lines 47-59).
\* fitz.open raises for a missing or unreadable file; with no page the body
\* is skipped and doc.close() ends run (line 67); a page that does not load
\* raises with the document open.
OpenAndRender(l) ==
    /\ loaders[l].pc = "open"
    /\ LET d == docs[loaders[l].path]
       IN  CASE d.kind \in {"missing", "corrupt"} -> Raised(l)
             [] d.kind = "zero" ->
                  /\ loaders' = [loaders EXCEPT ![l].handle = "closed", ![l].pc = "done"]
                  /\ UNCHANGED queue
             [] d.kind = "badpage" ->
                  /\ loaders' = [loaders EXCEPT
                        ![l].handle = "open",
                        ![l].pc = "done", ![l].raised = TRUE,
                        ![l].emits = @ + 1, ![l].result = Empty]
                  /\ queue' = Append(queue, EmitEvent(l, Empty))
             [] d.kind = "ok" ->
                  /\ loaders' = [loaders EXCEPT
                        ![l].handle = "open",
                        ![l].pix = Bitmap(loaders[l].path, d.ver),
                        ![l].pc = "save"]
                  /\ UNCHANGED queue
    /\ UNCHANGED <<sortVars, bookVars, viewVars, favVars, docs, cacheDir, cacheFiles, slots, thumbnail_threads, tabShown,
                   envChanges>>

\* pixmap.save(cache_file)  (line 62), first half: the file is created or
\* truncated and the writer starts at offset 0. save returns False, and
\* nothing is written, when the directory is missing or not writable.
SaveBegin(l) ==
    /\ loaders[l].pc = "save"
    /\ LET name == CacheFileName(loaders[l].path)
           old == IF name \in DOMAIN cacheFiles THEN cacheFiles[name] ELSE NoFile
       IN  IF cacheDir = "present"
           THEN /\ cacheFiles' = Put(cacheFiles, name,
                      [writers |-> old.writers \cup {l},
                       bmp |-> Empty,
                       parts |-> IF old.writers = {} THEN {loaders[l].pix}
                                 ELSE old.parts \cup {loaders[l].pix}])
                /\ loaders' = [loaders EXCEPT
                      ![l].pc = "saving", ![l].saved = TRUE,
                      ![l].created = IF name \in DOMAIN cacheFiles
                                     THEN @ ELSE @ \cup {name}]
           ELSE /\ loaders' = [loaders EXCEPT ![l].pc = "emit"]
                /\ UNCHANGED cacheFiles
    /\ UNCHANGED <<sortVars, bookVars, viewVars, favVars, docs, cacheDir, slots, queue, thumbnail_threads,
                   tabShown, envChanges>>

\* SaveEnd in which writers that overlap always leave a file no reader can
\* decode.
SaveEndTorn(l) ==
    /\ loaders[l].pc = "saving"
    /\ LET name == CacheFileName(loaders[l].path)
       IN  IF name \in DOMAIN cacheFiles /\ l \in cacheFiles[name].writers
           THEN cacheFiles' = [cacheFiles EXCEPT ![name] =
                    [writers |-> @.writers \ {l},
                     bmp |-> IF @.writers = {l} /\ loaders[l].created # {}
                             THEN loaders[l].pix ELSE Empty,
                     parts |-> @.parts]]
           ELSE UNCHANGED cacheFiles
    /\ loaders' = [loaders EXCEPT ![l].pc = "emit"]
    /\ UNCHANGED <<sortVars, bookVars, viewVars, favVars, docs, cacheDir, slots, queue, thumbnail_threads,
                   tabShown, envChanges>>

\* pixmap.save(cache_file), second half: the last byte is written and the
\* file closed. Writers of one file each write their own bytes from offset
\* 0 with no lock: when the last of them closes, the file holds the pixmap
\* they all wrote, or, when they wrote different pixmaps, any one of these
\* or a mixture that does not decode.
SaveEnd(l) ==
    /\ loaders[l].pc = "saving"
    /\ LET name == CacheFileName(loaders[l].path)
       IN  IF name \in DOMAIN cacheFiles /\ l \in cacheFiles[name].writers
           THEN \E b \in (IF cacheFiles[name].writers # {l} THEN {Empty}
                          ELSE IF Cardinality(cacheFiles[name].parts) = 1
                               THEN {loaders[l].pix}
                          ELSE cacheFiles[name].parts \cup {Empty}) :
                    cacheFiles' = [cacheFiles EXCEPT ![name] =
                        [writers |-> @.writers \ {l}, bmp |-> b, parts |-> @.parts]]
           ELSE UNCHANGED cacheFiles
    /\ loaders' = [loaders EXCEPT ![l].pc = "emit"]
    /\ UNCHANGED <<sortVars, bookVars, viewVars, favVars, docs, cacheDir, slots, queue, thumbnail_threads,
                   tabShown, envChanges>>

\* self.thumbnail_loaded.emit(self.pdf_path, pixmap); doc.close()
\* (lines 65-67)
EmitRendered(l) ==
    /\ loaders[l].pc = "emit"
    /\ loaders' = [loaders EXCEPT ![l].pc = "done", ![l].handle = "closed",
                                  ![l].emits = @ + 1, ![l].result = loaders[l].pix]
    /\ queue' = Append(queue, EmitEvent(l, loaders[l].pix))
    /\ UNCHANGED <<sortVars, bookVars, viewVars, favVars, docs, cacheDir, cacheFiles, slots, thumbnail_threads, tabShown,
                   envChanges>>

----------------------------------------------------------------------------
(* Bookshelf: the thumbnail slots and the UI thread *)

SlotIds == 1..Len(slots)

\* A thumb_label of the volume grid (kind "volume") or a QListWidgetItem of
\* the favorites or bookmarks list.
\*   state  "live" | "pending" (deleteLater called) | "deleted"
\*   shown  what the slot displays: "blank", "NoPreview" or a pixmap
\*   from   the loaders whose delivery was applied to the slot
NewSlot(kind, pdf_path) ==
    [kind |-> kind, path |-> pdf_path, state |-> "live",
     shown |-> [text |-> "blank", pix |-> Empty], from |-> {}]

\* A listing of the files of set S, in the order of get_pdf_files.
RECURSIVE SeqOfSet(_)
SeqOfSet(S) ==
    IF S = {} THEN <<>>
    ELSE LET x == CHOOSE y \in S : TRUE IN << x >> \o SeqOfSet(S \ {x})

Listing(S) == SortedLocale(SeqOfSet(S))

\* The loop bodies of display_volumes, update_favorites_list and
\* update_bookmarks_list: one slot and one started loader per file, each
\* loader connected to the setter of its own slot (label=local_thumb_label,
\* item=local_item).
SlotOfNew(i) == Len(slots) + i

SlotsFor(kind, names) ==
    [i \in 1..Len(names) |-> NewSlot(kind, PdfPath(MangaPath, names[i]))]

\* LoadersFor with lambdas that look the loop variable up when they run:
\* every loader of a refresh is connected to the slot the loop made last.
LoadersForLastSlot(names) ==
    [i \in 1..Len(names) |->
        NewLoader(PdfPath(MangaPath, names[i]), SlotOfNew(Len(names)))]

LoadersFor(names) ==
    [i \in 1..Len(names) |-> NewLoader(PdfPath(MangaPath, names[i]), SlotOfNew(i))]

\* clean_thumbnail_threads: keep the threads that are still running.
CleanThumbnailThreads ==
    SelectSeq(thumbnail_threads, LAMBDA l : loaders[l].pc # "done")

NewIds(n) == [i \in 1..n |-> Len(loaders) + i]

\* display_volumes(manga_path, files), called with the listing of the
\* directory by tree_item_clicked, load_volumes_from_favorites and
\* open_bookmark_from_list; the volume grid is, or becomes, the current tab.
DisplayVolumes(S) ==
    LET listing == Listing(S)
        sorted == SortedNatural(listing.list)
        old == {i \in SlotIds : slots[i].kind = "volume" /\ slots[i].state = "live"}
    IN  /\ listing.ok /\ sorted.ok
        /\ Len(loaders) + Len(sorted.list) <= MaxLoaders
        /\ thumbnail_threads' = CleanThumbnailThreads \o NewIds(Len(sorted.list))
        /\ slots' = [i \in SlotIds |->
                        IF i \in old THEN [slots[i] EXCEPT !.state = "pending"]
                        ELSE slots[i]]
                     \o SlotsFor("volume", sorted.list)
        /\ queue' = IF old = {} THEN queue
                     ELSE Append(queue, [type |-> "delete", loader |-> 0,
                                         pix |-> Empty, slots |-> old])
        /\ loaders' = loaders \o LoadersFor(sorted.list)
        /\ tabShown' = TRUE
        /\ UNCHANGED <<sortVars, bookVars, viewVars, favVars, docs, cacheDir, cacheFiles, envChanges>>

\* update_favorites_list / update_bookmarks_list: list.clear() deletes the
\* items at once; then one item, and one loader, per entry whose PDF exists.
UpdateList(kind, S) ==
    LET listing == Listing(S)
        names == IF kind = "favorite" /\ Len(listing.list) > 0
                 THEN << listing.list[1] >>     \* pdf_files[0]
                 ELSE listing.list
    IN  /\ listing.ok
        /\ Len(loaders) + Len(names) <= MaxLoaders
        /\ thumbnail_threads' = thumbnail_threads \o NewIds(Len(names))
        /\ slots' = [i \in SlotIds |->
                        IF slots[i].kind = kind
                        THEN [slots[i] EXCEPT !.state = "deleted"]
                        ELSE slots[i]]
                     \o SlotsFor(kind, names)
        /\ loaders' = loaders \o LoadersFor(names)
        /\ UNCHANGED <<sortVars, bookVars, viewVars, favVars, docs, cacheDir, cacheFiles, queue, tabShown, envChanges>>

UpdateFavoritesList(S) == UpdateList("favorite", S)

UpdateBookmarksList(S) == UpdateList("bookmark", S)

\* The user selects another tab of the QTabWidget.
SwitchTab ==
    /\ tabShown' = ~tabShown
    /\ UNCHANGED <<sortVars, bookVars, viewVars, favVars, docs, cacheDir, cacheFiles, loaders, slots, queue,
                   thumbnail_threads, envChanges>>

\* set_thumbnail(label, pixmap): a deleted QLabel raises RuntimeError at
\* label.isVisible(); a label that is not visible is left alone.
SetThumbnail(slot, pixmap) ==
    IF slot.state = "deleted" THEN [out |-> "error", slot |-> slot]
    ELSE IF ~tabShown THEN [out |-> "discarded", slot |-> slot]
    ELSE IF pixmap # Empty
         THEN [out |-> "applied",
               slot |-> [slot EXCEPT !.shown = [text |-> "", pix |-> pixmap]]]
    ELSE [out |-> "applied",
          slot |-> [slot EXCEPT !.shown = [text |-> "NoPreview", pix |-> Empty]]]

\* set_favorite_thumbnail / set_bookmark_thumbnail(item, pixmap): a deleted
\* item raises RuntimeError at item.text(); a live item is found in its
\* list, and gets the icon unless the pixmap is null.
SetItemThumbnail(slot, pixmap) ==
    IF slot.state = "deleted" THEN [out |-> "error", slot |-> slot]
    ELSE IF pixmap # Empty
         THEN [out |-> "applied",
               slot |-> [slot EXCEPT !.shown = [text |-> "", pix |-> pixmap]]]
    ELSE [out |-> "noicon", slot |-> slot]

\* The UI thread handles its oldest event: a deferred delete destroys the
\* widgets it names, a queued thumbnail_loaded call runs the connected
\* lambda. handled records what the setter did with the delivery.
ProcessEvent ==
    /\ queue # <<>>
    /\ queue' = Tail(queue)
    /\ LET ev == Head(queue)
       IN  IF ev.type = "delete"
           THEN /\ slots' = [i \in SlotIds |->
                                IF i \in ev.slots
                                THEN [slots[i] EXCEPT !.state = "deleted"]
                                ELSE slots[i]]
                /\ UNCHANGED loaders
           ELSE LET i == loaders[ev.loader].slot
                    r == IF slots[i].kind = "volume"
                         THEN SetThumbnail(slots[i], ev.pix)
                         ELSE SetItemThumbnail(slots[i], ev.pix)
                IN  /\ slots' = [slots EXCEPT ![i] =
                                   IF r.out = "applied"
                                   THEN [r.slot EXCEPT !.from = @ \cup {ev.loader}]
                                   ELSE r.slot]
                    /\ loaders' = [loaders EXCEPT ![ev.loader].handled =
                                     Append(@, [out |-> r.out,
                                                state |-> slots[i].state])]
    /\ UNCHANGED <<sortVars, bookVars, viewVars, favVars, docs, cacheDir, cacheFiles, thumbnail_threads, tabShown,
                   envChanges>>

----------------------------------------------------------------------------
(* SettingsManager: the bookmarks and their file *)

\* The series, volumes and page indexes bookmarks are set for.
Mangas == { <<"a">> }

Volumes == { <<"v", "1">>, <<"v", "2">> }

Pages == 0..MaxPage

\* {}: no bookmark.
NoBookmarks == [k \in {} |-> 0]

\* BookmarkKey that names the volume only.
BookmarkKeyOfVolume(manga, volume) == volume

\* f"{manga}/{volume}"  (line 124)
BookmarkKey(manga, volume) == manga \o <<"/">> \o volume

BookmarkKeys == { BookmarkKey(m, v) : m \in Mangas, v \in Volumes }

\* The decimal digit json writes for d.
DigitChar(d) ==
    CASE d = 0 -> "0" [] d = 1 -> "1" [] d = 2 -> "2" [] d = 3 -> "3"
      [] d = 4 -> "4" [] d = 5 -> "5" [] d = 6 -> "6" [] d = 7 -> "7"
      [] d = 8 -> "8" [] d = 9 -> "9"

\* json's text of a non-negative int.
RECURSIVE IntToText(_)
IntToText(n) ==
    IF n < 10 THEN << DigitChar(n) >>
    ELSE IntToText(n \div 10) \o << DigitChar(n % 10) >>

\* json.dump(self.bookmarks, f, ...): the members of the object, each a key
\* string and the text of its number.
JsonDump(map) ==
    LET keys == SeqOfSet(DOMAIN map)
    IN  [i \in 1..Len(keys) |-> [key |-> keys[i], page |-> IntToText(map[keys[i]])]]

\* json.load(f) of the text of an object: a dict of its members, the
\* numbers parsed.
JsonLoad(text) ==
    [k \in {text[i].key : i \in 1..Len(text)} |->
        IntOf((CHOOSE m \in {text[i] : i \in 1..Len(text)} : m.key = k).page)]

\* The bookmarks file: whether it exists and what it holds; whole is FALSE
\* for a file a failed write left truncated.
AbsentFile == [exists |-> FALSE, whole |-> FALSE, text |-> <<>>]

WrittenFile(text) == [exists |-> TRUE, whole |-> TRUE, text |-> text]

TruncatedFile == [exists |-> TRUE, whole |-> FALSE, text |-> <<>>]

\* load_bookmarks: {} when there is no file, and when json.load raises
\* (lines 99-105).
LoadBookmarks(file) ==
    IF ~file.exists THEN NoBookmarks
    ELSE IF ~file.whole THEN NoBookmarks
    ELSE JsonLoad(file.text)

\* save_bookmarks writing map (lines 109-113): open(..., 'w') truncates the
\* file and json.dump writes it; an exception is printed and swallowed,
\* with the file untouched (open failed) or truncated (the write failed).
SaveBookmarks(map) ==
    \/ /\ bookmarksFile' = WrittenFile(JsonDump(map))
       /\ saveOk' = saveOk
    \/ /\ bookmarksFile' = bookmarksFile
       /\ saveOk' = FALSE
    \/ /\ bookmarksFile' = TruncatedFile
       /\ saveOk' = FALSE

\* add_bookmark(manga, volume, page)  (lines 115-126)
AddBookmark(manga, volume, page) ==
    /\ bookmarks' = [k \in DOMAIN bookmarks \cup {BookmarkKey(manga, volume)} |->
                        IF k = BookmarkKey(manga, volume) THEN page
                        ELSE bookmarks[k]]
    /\ SaveBookmarks(bookmarks')

\* remove_bookmark(bookmark_key)  (lines 128-142)
RemoveBookmark(bookmark_key) ==
    IF bookmark_key \in DOMAIN bookmarks
    THEN /\ bookmarks' = [k \in DOMAIN bookmarks \ {bookmark_key} |-> bookmarks[k]]
         /\ SaveBookmarks(bookmarks')
    ELSE UNCHANGED bookVars

\* The program is started again: SettingsManager.__init__ loads the file
\* (line 32).
Restart ==
    /\ bookmarks' = LoadBookmarks(bookmarksFile)
    /\ saveOk' = TRUE
    /\ UNCHANGED bookmarksFile

\* The bookmarks, their file and nothing else.
NextBook ==
    \/ /\ \E m \in Mangas, v \in Volumes, p \in Pages : AddBookmark(m, v, p)
       /\ UNCHANGED <<sortVars, thumbVars, viewVars, favVars>>
    \/ /\ \E k \in BookmarkKeys : RemoveBookmark(k)
       /\ UNCHANGED <<sortVars, thumbVars, viewVars, favVars>>
    \/ /\ Restart
       /\ UNCHANGED <<sortVars, thumbVars, viewVars, favVars>>

----------------------------------------------------------------------------
(* PDFViewer: the page viewer, and the bookmark action of MangaViewer *)

\* What the path of a volume holds: no file fitz can open, or a PDF with
\* so many pages whose pages load (renders) or raise in load_page.
MissingPdf == [kind |-> "missing", pages |-> 0, renders |-> FALSE]

Pdf(pages, renders) == [kind |-> "pdf", pages |-> pages, renders |-> renders]

VolumeStates ==
    {MissingPdf, Pdf(0, TRUE), Pdf(MaxPages - 1, TRUE), Pdf(MaxPages, TRUE),
     Pdf(MaxPages, FALSE)}

\* self.pdf_document = None
NoDocument ==
    [open |-> FALSE, manga |-> <<>>, volume |-> <<>>, pages |-> 0, renders |-> FALSE]

\* fitz.open(pdf_path) of a file that opens
Document(manga, volume, f) ==
    [open |-> TRUE, manga |-> manga, volume |-> volume, pages |-> f.pages,
     renders |-> f.renders]

\* bool(self.pdf_document) in "if self.pdf_document": None is false, and a
\* fitz document, which defines __len__ and not __bool__, is false when it
\* has no page.
Truthy(doc) == doc.open /\ doc.pages > 0

\* The page numbers go_to_page and jump_to_page are called with.
PageArgs == (0 - 1)..MaxPages

Op(name, shown) == [op |-> name, shown |-> shown]

\* DisplayPage without the automatic bookmark.
DisplayPageNoBookmark(doc, page, total, manga, volume, name) ==
    /\ viewerOp' = Op(name, Truthy(doc) /\ page < total /\ doc.renders)
    /\ UNCHANGED bookVars

\* display_page (lines 232-290) on the viewer fields as the caller left
\* them: nothing without a document or with current_page >= total_pages;
\* an exception of load_page is shown in a message box; a page that is
\* displayed is bookmarked (lines 277-283).
DisplayPage(doc, page, total, manga, volume, name) ==
    IF Truthy(doc) /\ page < total /\ doc.renders
    THEN /\ viewerOp' = Op(name, TRUE)
         /\ IF manga # <<>> /\ volume # <<>>
            THEN AddBookmark(manga, volume, page)
            ELSE UNCHANGED bookVars
    ELSE /\ viewerOp' = Op(name, FALSE)
         /\ UNCHANGED bookVars

\* load_pdf(manga_name, manga_path, volume_name)  (lines 166-230). resume is
\* the answer to the question asked when the volume has a bookmark; the
\* operation is recorded as load_pdf_yes or load_pdf_no when it was asked.
LoadPdf(manga_name, volume_name, resume) ==
    LET f == shelf[volume_name]
        bookmark_key == BookmarkKey(manga_name, volume_name)
        closed == IF Truthy(pdf_document) THEN NoDocument ELSE pdf_document
        name == IF bookmark_key \notin DOMAIN bookmarks THEN "load_pdf"
                ELSE IF resume THEN "load_pdf_yes" ELSE "load_pdf_no"
    IN  /\ current_manga' = manga_name
        /\ current_volume' = volume_name
        /\ IF f.kind = "missing"
           THEN /\ pdf_document' = closed
                /\ viewerOp' = Op("load_pdf_failed", FALSE)
                /\ UNCHANGED <<current_page, total_pages, bookVars>>
           ELSE /\ pdf_document' = Document(manga_name, volume_name, f)
                /\ total_pages' = f.pages
                /\ current_page' = IF bookmark_key \in DOMAIN bookmarks /\ resume
                                   THEN bookmarks[bookmark_key]
                                   ELSE 0
                /\ DisplayPage(pdf_document', current_page', total_pages',
                               manga_name, volume_name, name)
        /\ UNCHANGED <<shelf, bookmarks_list>>

\* NextPage without the test for the last page.
NextPageUnguarded ==
    /\ IF Truthy(pdf_document)
       THEN /\ current_page' = current_page + 1
            /\ DisplayPage(pdf_document, current_page', total_pages,
                           current_manga, current_volume, "next_page")
       ELSE /\ viewerOp' = Op("next_page", FALSE)
            /\ UNCHANGED <<current_page, bookVars>>
    /\ UNCHANGED <<current_manga, current_volume, pdf_document, total_pages, shelf,
                   bookmarks_list>>

\* next_page  (lines 292-298); at the last page a message box and nothing
\* else.
NextPage ==
    /\ IF Truthy(pdf_document) /\ current_page < total_pages - 1
       THEN /\ current_page' = current_page + 1
            /\ DisplayPage(pdf_document, current_page', total_pages,
                           current_manga, current_volume, "next_page")
       ELSE /\ viewerOp' = Op("next_page", FALSE)
            /\ UNCHANGED <<current_page, bookVars>>
    /\ UNCHANGED <<current_manga, current_volume, pdf_document, total_pages, shelf,
                   bookmarks_list>>

\* prev_page  (lines 300-306)
PrevPage ==
    /\ IF Truthy(pdf_document) /\ current_page > 0
       THEN /\ current_page' = current_page - 1
            /\ DisplayPage(pdf_document, current_page', total_pages,
                           current_manga, current_volume, "prev_page")
       ELSE /\ viewerOp' = Op("prev_page", FALSE)
            /\ UNCHANGED <<current_page, bookVars>>
    /\ UNCHANGED <<current_manga, current_volume, pdf_document, total_pages, shelf,
                   bookmarks_list>>

\* The body go_to_page and jump_to_page share: the page is taken when a
\* document is open and 0 <= page < total_pages.
SetPage(page, name) ==
    /\ IF Truthy(pdf_document) /\ 0 <= page /\ page < total_pages
       THEN /\ current_page' = page
            /\ DisplayPage(pdf_document, current_page', total_pages,
                           current_manga, current_volume, name)
       ELSE /\ viewerOp' = Op(name, FALSE)
            /\ UNCHANGED <<current_page, bookVars>>
    /\ UNCHANGED <<current_manga, current_volume, pdf_document, total_pages, shelf,
                   bookmarks_list>>

\* go_to_page(page_number)  (lines 308-317)
GoToPage(page_number) == SetPage(page_number, "go_to_page")

\* jump_to_page(page)  (lines 137-155)
JumpToPage(page) == SetPage(page, "jump_to_page")

\* close_document  (lines 414-428)
CloseDocument ==
    /\ IF Truthy(pdf_document)
       THEN /\ pdf_document' = NoDocument
            /\ current_page' = 0
            /\ total_pages' = 0
            /\ current_manga' = <<>>
            /\ current_volume' = <<>>
       ELSE UNCHANGED <<pdf_document, current_page, total_pages, current_manga,
                        current_volume>>
    /\ viewerOp' = Op("close_document", FALSE)
    /\ UNCHANGED <<shelf, bookVars, bookmarks_list>>

\* The items update_bookmarks_list puts in the bookmarks list of the
\* bookshelf: one per bookmark, holding its key (bookshelf.py, lines
\* 511-543). The thumbnail loaders it starts for them are those of
\* UpdateBookmarksList.
BookmarkItems(map) == DOMAIN map

\* MangaViewer.add_bookmark  (manga_viewer.py, lines 195-215): the bookmark
\* of the viewer's current manga, volume and page, then
\* bookshelf.update_bookmarks_list.
MangaViewerAddBookmark ==
    /\ IF current_manga = <<>> \/ current_volume = <<>>
       THEN UNCHANGED <<bookVars, bookmarks_list>>
       ELSE /\ AddBookmark(current_manga, current_volume, current_page)
            /\ bookmarks_list' = BookmarkItems(bookmarks')
    /\ viewerOp' = Op("add_bookmark", FALSE)
    /\ UNCHANGED <<current_manga, current_volume, pdf_document, current_page,
                   total_pages, shelf>>

\* The remove action of show_bookmarks_context_menu  (bookshelf.py, lines
\* 644-651) on the item of a bookmark: settings_manager.remove_bookmark,
\* then update_bookmarks_list.
RemoveFromList(bookmark_key) ==
    /\ bookmark_key \in bookmarks_list
    /\ IF bookmark_key \in DOMAIN bookmarks
       THEN /\ RemoveBookmark(bookmark_key)
            /\ bookmarks_list' = BookmarkItems(bookmarks')
       ELSE UNCHANGED <<bookVars, bookmarks_list>>
    /\ viewerOp' = Op("remove_bookmark", FALSE)
    /\ UNCHANGED <<current_manga, current_volume, pdf_document, current_page,
                   total_pages, shelf>>

\* The file of a volume is replaced or removed from outside the program.
ChangeVolume(volume, f) ==
    /\ envChanges < MaxEnvChanges
    /\ shelf[volume] # f
    /\ shelf' = [shelf EXCEPT ![volume] = f]
    /\ envChanges' = envChanges + 1
    /\ viewerOp' = Op("disk", FALSE)
    /\ UNCHANGED <<current_manga, current_volume, pdf_document, current_page,
                   total_pages, bookVars, bookmarks_list>>

\* The viewer, the bookmarks and the files of the volumes.
NextViewer ==
    \/ /\ \E m \in Mangas, v \in Volumes, resume \in BOOLEAN : LoadPdf(m, v, resume)
       /\ UNCHANGED <<sortVars, thumbVars, favVars>>
    \/ /\ NextPage
       /\ UNCHANGED <<sortVars, thumbVars, favVars>>
    \/ /\ PrevPage
       /\ UNCHANGED <<sortVars, thumbVars, favVars>>
    \/ /\ \E n \in PageArgs : GoToPage(n)
       /\ UNCHANGED <<sortVars, thumbVars, favVars>>
    \/ /\ \E n \in PageArgs : JumpToPage(n)
       /\ UNCHANGED <<sortVars, thumbVars, favVars>>
    \/ /\ CloseDocument
       /\ UNCHANGED <<sortVars, thumbVars, favVars>>
    \/ /\ MangaViewerAddBookmark
       /\ UNCHANGED <<sortVars, thumbVars, favVars>>
    \/ /\ \E k \in BookmarkKeys : RemoveFromList(k)
       /\ UNCHANGED <<sortVars, thumbVars, favVars>>
    \/ /\ \E v \in Volumes, f \in VolumeStates : ChangeVolume(v, f)
       /\ UNCHANGED <<sortVars, docs, cacheDir, cacheFiles, loaders, slots, queue,
                      thumbnail_threads, tabShown, favVars>>

\* PDFViewer.__init__  (lines 25-31)
NoViewer ==
    /\ current_manga = <<>>
    /\ current_volume = <<>>
    /\ pdf_document = NoDocument
    /\ current_page = 0
    /\ total_pages = 0
    /\ shelf = [v \in Volumes |-> MissingPdf]
    /\ viewerOp = Op("init", FALSE)
    /\ bookmarks_list = {}

----------------------------------------------------------------------------
(* SettingsManager: the favorites and their file *)

\* The manga names a favorite is made of.
FavoriteNames == { <<"a">>, <<"b">>, <<"c">> }

Elements(list) == { list[i] : i \in 1..Len(list) }

NoDuplicates(list) == \A i, j \in 1..Len(list) : list[i] = list[j] => i = j

\* load_favorites  (lines 144-157)
LoadFavorites(file) == IF file.exists /\ file.whole THEN file.text ELSE <<>>

\* save_favorites  (lines 159-165), with the outcomes of save_bookmarks.
SaveFavorites(list) ==
    \/ favoritesFile' = WrittenFile(list)
    \/ favoritesFile' = favoritesFile
    \/ favoritesFile' = TruncatedFile

FavOp(name, manga_name, ret, wrote) ==
    [op |-> name, name |-> manga_name, ret |-> ret, wrote |-> wrote]

\* AddFavorite without the test for a name that is already there.
AddFavoriteAlways(manga_name) ==
    /\ favorites' = Append(favorites, manga_name)
    /\ SaveFavorites(favorites')
    /\ favOp' = FavOp("add", manga_name, TRUE, TRUE)

\* add_favorite(manga_name)  (lines 167-182)
AddFavorite(manga_name) ==
    IF manga_name \in Elements(favorites)
    THEN /\ favOp' = FavOp("add", manga_name, FALSE, FALSE)
         /\ UNCHANGED <<favorites, favoritesFile>>
    ELSE /\ favorites' = Append(favorites, manga_name)
         /\ SaveFavorites(favorites')
         /\ favOp' = FavOp("add", manga_name, TRUE, TRUE)

\* list.remove(x): the list without the first x.
RemoveFirst(list, x) ==
    LET i == CHOOSE j \in 1..Len(list) :
                 list[j] = x /\ \A k \in 1..(j - 1) : list[k] # x
    IN  SubSeq(list, 1, i - 1) \o SubSeq(list, i + 1, Len(list))

\* remove_favorite(manga_name)  (lines 184-199)
RemoveFavorite(manga_name) ==
    IF manga_name \notin Elements(favorites)
    THEN /\ favOp' = FavOp("remove", manga_name, FALSE, FALSE)
         /\ UNCHANGED <<favorites, favoritesFile>>
    ELSE /\ favorites' = RemoveFirst(favorites, manga_name)
         /\ SaveFavorites(favorites')
         /\ favOp' = FavOp("remove", manga_name, TRUE, TRUE)

NextFav ==
    \/ /\ \E n \in FavoriteNames : AddFavorite(n)
       /\ UNCHANGED <<sortVars, thumbVars, bookVars, viewVars>>
    \/ /\ \E n \in FavoriteNames : RemoveFavorite(n)
       /\ UNCHANGED <<sortVars, thumbVars, bookVars, viewVars>>

\* No favorites file yet: load_favorites returned [].
NoFav ==
    /\ favorites = <<>>
    /\ favoritesFile = AbsentFile
    /\ favOp = FavOp("init", <<>>, FALSE, FALSE)

\* The lists without duplicates a favorites file can hold.
FavoriteLists ==
    { l \in UNION { [1..n -> FavoriteNames] : n \in 0..Cardinality(FavoriteNames) } :
        NoDuplicates(l) }

----------------------------------------------------------------------------
(* The disk changes under the program *)

\* The file at path p is replaced, damaged or removed.
ChangeDoc(p, kind) ==
    /\ envChanges < MaxEnvChanges
    /\ kind = "ok" => docs[p].ver < MaxVer
    /\ docs' = [docs EXCEPT ![p] =
                  Doc(kind, IF kind = "ok" THEN docs[p].ver + 1 ELSE docs[p].ver)]
    /\ envChanges' = envChanges + 1
    /\ UNCHANGED <<sortVars, bookVars, viewVars, favVars, cacheDir, cacheFiles, loaders, slots, queue, thumbnail_threads,
                   tabShown>>

\* The cache directory is removed (and can or cannot be created again) or
\* made read-only.
ChangeCacheDir(state) ==
    /\ envChanges < MaxEnvChanges
    /\ state # cacheDir
    /\ cacheDir' = state
    /\ cacheFiles' = IF state \in {"absent", "blocked"} THEN NoFiles ELSE cacheFiles
    /\ envChanges' = envChanges + 1
    /\ UNCHANGED <<sortVars, bookVars, viewVars, favVars, docs, loaders, slots, queue, thumbnail_threads, tabShown>>

----------------------------------------------------------------------------
(* Specifications *)

\* After construction: SettingsManager has made the cache directory, the
\* favorites and bookmarks lists are empty, no volume is displayed.
InitThumb ==
    /\ docs = [p \in Paths |-> Doc("ok", 1)]
    /\ cacheDir = "present"
    /\ cacheFiles = NoFiles
    /\ loaders = <<>>
    /\ slots = <<>>
    /\ queue = <<>>
    /\ thumbnail_threads = <<>>
    /\ tabShown = TRUE
    /\ envChanges = 0

NoSort ==
    /\ files = <<>>
    /\ sortPc = "idle"
    /\ sortResult = NoResult
    /\ directory = Readable(<<>>)

\* No bookmarks file yet: load_bookmarks returned {}.
NoBook ==
    /\ bookmarks = NoBookmarks
    /\ bookmarksFile = AbsentFile
    /\ saveOk = TRUE

Init == InitThumb /\ NoSort /\ NoBook /\ NoViewer /\ NoFav

\* A listing of two names is about to be sorted.
InitSort ==
    /\ InitThumb
    /\ NoBook
    /\ NoViewer
    /\ NoFav
    /\ files \in [1..2 -> Names]
    /\ directory \in Directories
    /\ sortPc = "listed"
    /\ sortResult = NoResult

\* The volume grid, its loaders and the disk.
Next ==
    \/ \E l \in LoaderIds : CheckCacheDir(l)
    \/ \E l \in LoaderIds : MakeDirs(l)
    \/ \E l \in LoaderIds : CheckCache(l)
    \/ \E l \in LoaderIds : LoadCache(l)
    \/ \E l \in LoaderIds : OpenAndRender(l)
    \/ \E l \in LoaderIds : SaveBegin(l)
    \/ \E l \in LoaderIds : SaveEnd(l)
    \/ \E l \in LoaderIds : EmitRendered(l)
    \/ \E S \in SUBSET VolumeFiles : DisplayVolumes(S)
    \/ ProcessEvent
    \/ \E p \in Paths, k \in DocKinds : ChangeDoc(p, k)
    \/ \E st \in {"present", "readonly", "absent", "blocked"} : ChangeCacheDir(st)

Spec == Init /\ [][Next]_vars

\* The three views of the bookshelf and their loaders, the disk left alone.
NextView ==
    \/ \E l \in LoaderIds : CheckCacheDir(l)
    \/ \E l \in LoaderIds : CheckCache(l)
    \/ \E l \in LoaderIds : LoadCache(l)
    \/ \E l \in LoaderIds : OpenAndRender(l)
    \/ \E l \in LoaderIds : SaveBegin(l)
    \/ \E l \in LoaderIds : SaveEnd(l)
    \/ \E l \in LoaderIds : EmitRendered(l)
    \/ \E S \in SUBSET VolumeFiles : DisplayVolumes(S)
    \/ \E S \in SUBSET VolumeFiles : UpdateFavoritesList(S)
    \/ \E S \in SUBSET VolumeFiles : UpdateBookmarksList(S)
    \/ SwitchTab
    \/ ProcessEvent

SpecView == Init /\ [][NextView]_vars

\* The bookmarks of a first run of the program and of the runs after it.
SpecBook == Init /\ [][NextBook]_vars

\* The viewer is constructed; every volume is a PDF whose pages load.
InitViewer ==
    /\ InitThumb
    /\ NoSort
    /\ NoBook
    /\ NoFav
    /\ current_manga = <<>>
    /\ current_volume = <<>>
    /\ pdf_document = NoDocument
    /\ current_page = 0
    /\ total_pages = 0
    /\ shelf = [v \in Volumes |-> Pdf(MaxPages, TRUE)]
    /\ viewerOp = Op("init", FALSE)
    /\ bookmarks_list = BookmarkItems(bookmarks)

\* The page viewer under every sequence of its operations.
SpecViewer == InitViewer /\ [][NextViewer]_vars

\* The favorites loaded from a file that holds a list without duplicates.
InitFav ==
    /\ InitThumb
    /\ NoSort
    /\ NoBook
    /\ NoViewer
    /\ favoritesFile \in {AbsentFile} \cup { WrittenFile(l) : l \in FavoriteLists }
    /\ favorites = LoadFavorites(favoritesFile)
    /\ favOp = FavOp("init", <<>>, FALSE, FALSE)

\* The favorites under every sequence of add_favorite and remove_favorite.
SpecFav == InitFav /\ [][NextFav]_vars

\* Two strings are about to be given to a key function.
InitKey ==
    /\ InitThumb
    /\ NoBook
    /\ NoViewer
    /\ NoFav
    /\ files \in [1..2 -> KeyNames]
    /\ directory = Readable(<<>>)
    /\ sortPc = "listed"
    /\ sortResult = NoResult

\* The two key functions applied to every pair of drawn strings.
SpecKey == InitKey /\ [][NextKey]_vars

\* The two sorts applied to every listing of two names.
SpecSort == InitSort /\ [][NextSort]_vars

----------------------------------------------------------------------------
(* Properties of the sort keys *)

IsAscii(s) == \A i \in 1..Len(s) : CodePoint(s[i]) < 128

StripZeros(d) == SubSeq(d, RunLen(d, TRUE) - Len(d) + 1 +
                           Cardinality({i \in 1..Len(d) : \A j \in 1..i : d[j] = "0"}),
                        Len(d))

\* Numeric magnitude of digit runs, read off the digits: without leading
\* zeros the shorter run is the smaller number, and runs of one length
\* compare digit by digit.
RefNumLess(d1, d2) ==
    LET x == StripZeros(d1)
        y == StripZeros(d2)
    IN  \/ Len(x) < Len(y)
        \/ /\ Len(x) = Len(y)
           /\ \E i \in 1..Len(x) :
                 /\ \A j \in 1..(i - 1) : x[j] = y[j]
                 /\ DigitValue(x[i]) < DigitValue(y[i])

\* Component-wise comparison of the (text, number, text, ...) decompositions
\* of two lower-case strings.
RECURSIVE RefLess(_, _)
RefLess(a, b) ==
    LET ta == SubSeq(a, 1, RunLen(a, FALSE))
        tb == SubSeq(b, 1, RunLen(b, FALSE))
        ra == SubSeq(a, Len(ta) + 1, Len(a))
        rb == SubSeq(b, Len(tb) + 1, Len(b))
        da == SubSeq(ra, 1, RunLen(ra, TRUE))
        db == SubSeq(rb, 1, RunLen(rb, TRUE))
    IN  IF ta # tb THEN TextLess(ta, tb)
        ELSE IF rb = <<>> THEN FALSE
        ELSE IF ra = <<>> THEN TRUE
        ELSE IF RefNumLess(da, db) THEN TRUE
        ELSE IF RefNumLess(db, da) THEN FALSE
        ELSE RefLess(SubSeq(ra, Len(da) + 1, Len(ra)),
                     SubSeq(rb, Len(db) + 1, Len(rb)))

File2 == <<"f", "i", "l", "e", "2", ".", "p", "d", "f">>
File10 == <<"f", "i", "l", "e", "1", "0", ".", "p", "d", "f">>
File20 == <<"f", "i", "l", "e", "2", "0", ".", "p", "d", "f">>
Vol1 == <<"v", "o", "l", "1", ".", "p", "d", "f">>
Vol2 == <<"v", "o", "l", "2", ".", "p", "d", "f">>
Vol10 == <<"v", "o", "l", "1", "0", ".", "p", "d", "f">>

\* C1: for ASCII names the natural sort never raises and orders a listing
\* exactly as the component-wise comparison of the (text, number, text, ...)
\* decompositions does, digit runs by numeric magnitude; file2.pdf <
\* file10.pdf < file20.pdf, and [vol2.pdf, vol10.pdf, vol1.pdf] sorts to
\* [vol1.pdf, vol2.pdf, vol10.pdf].
C1_NaturalOrder ==
    (sortPc = "natural" /\ IsAscii(files[1]) /\ IsAscii(files[2])) =>
        /\ sortResult.ok
        /\ sortResult.list = IF RefLess(Lower(files[2]), Lower(files[1]))
                             THEN <<files[2], files[1]>>
                             ELSE files
        /\ KeyLess(NaturalSortKey(File2), NaturalSortKey(File10)) = "T"
        /\ KeyLess(NaturalSortKey(File10), NaturalSortKey(File20)) = "T"
        /\ KeyLess(NaturalSortKey(File10), NaturalSortKey(File2)) = "F"
        /\ SortedNatural(<<Vol2, Vol10, Vol1>>).list = <<Vol1, Vol2, Vol10>>

\* The natural sort has ordered a2 before a11, against the character order.
C1_Witness ==
    /\ sortPc = "natural"
    /\ files = << <<"a", "2">>, <<"a", "1", "1">> >>
    /\ sortResult.list = files

\* C2: sorting a listing by the locale key always completes (no comparison
\* of two keys raises), whatever names the listing mixes.
C2_LocaleSortTotal ==
    (sortPc = "locale" /\ directory.state = "ok") => sortResult.ok

\* C18: for a path that does not exist, is not a directory or is a
\* directory that cannot be listed, get_pdf_files and get_manga_directories
\* return the empty list and raise nothing.
C18_UnlistableGivesEmpty ==
    (sortPc \in {"locale", "mangas"} /\ directory.state # "ok") =>
        sortResult.ok /\ sortResult.list = <<>>

\* str.upper() on one character.
UpperChar(c) ==
    CASE c = "a" -> "A"
      [] c = "b" -> "B"
      [] c = "s" -> "S"
      [] c = "ls" -> "S"
      [] OTHER -> c

\* t is s with some of its letters changed in case, or s is t so changed.
CaseVariant(s, t) ==
    /\ Len(s) = Len(t)
    /\ \A i \in 1..Len(s) :
          \/ t[i] \in {s[i], LowerChar(s[i]), UpperChar(s[i])}
          \/ s[i] \in {LowerChar(t[i]), UpperChar(t[i])}

\* Every letter of s has a one-to-one case mapping: lower-casing its
\* upper-case form gives its lower-case form.
SimpleCase(s) ==
    \A i \in 1..Len(s) : LowerChar(UpperChar(s[i])) = LowerChar(s[i])

Volume1 == <<"V", "o", "l", "u", "m", "e", "1">>
volume1 == <<"v", "o", "l", "u", "m", "e", "1">>

HiraganaRows ==
    << <<"hi:a", "hi:i", "hi:u", "hi:e", "hi:o">>,
       <<"hi:ka", "hi:ki", "hi:ku", "hi:ke", "hi:ko">>,
       <<"hi:sa", "hi:si", "hi:su", "hi:se", "hi:so">>,
       <<"hi:ta", "hi:ti", "hi:tu", "hi:te", "hi:to">>,
       <<"hi:na", "hi:ni", "hi:nu", "hi:ne", "hi:no">>,
       <<"hi:ha", "hi:hi", "hi:hu", "hi:he", "hi:ho">>,
       <<"hi:ma", "hi:mi", "hi:mu", "hi:me", "hi:mo">>,
       <<"hi:ya", "hi:yu", "hi:yo">>,
       <<"hi:ra", "hi:ri", "hi:ru", "hi:re", "hi:ro">>,
       <<"hi:wa", "hi:wo", "hi:n">> >>

KatakanaRows ==
    << <<"ka:a", "ka:i", "ka:u", "ka:e", "ka:o">>,
       <<"ka:ka", "ka:ki", "ka:ku", "ka:ke", "ka:ko">>,
       <<"ka:sa", "ka:si", "ka:su", "ka:se", "ka:so">>,
       <<"ka:ta", "ka:ti", "ka:tu", "ka:te", "ka:to">>,
       <<"ka:na", "ka:ni", "ka:nu", "ka:ne", "ka:no">>,
       <<"ka:ha", "ka:hi", "ka:hu", "ka:he", "ka:ho">>,
       <<"ka:ma", "ka:mi", "ka:mu", "ka:me", "ka:mo">>,
       <<"ka:ya", "ka:yu", "ka:yo">>,
       <<"ka:ra", "ka:ri", "ka:ru", "ka:re", "ka:ro">>,
       <<"ka:wa", "ka:wo", "ka:n">> >>

RECURSIVE Flatten(_)
Flatten(rows) == IF rows = <<>> THEN <<>> ELSE rows[1] \o Flatten(Tail(rows))

BaseKana == {Flatten(HiraganaRows)[i] : i \in 1..46}
            \cup {Flatten(KatakanaRows)[i] : i \in 1..46}

\* The place of a base kana in the gojuon order.
GojuonPos(c) ==
    CHOOSE i \in 1..46 : Flatten(HiraganaRows)[i] = c \/ Flatten(KatakanaRows)[i] = c

\* C15: of two unvoiced base kana the one that comes first in the gojuon
\* table has the smaller locale key, so that sorting [sa, a, ka] gives
\* [a, ka, sa].
C15_GojuonOrder ==
    (/\ sortPc = "lkeys" /\ Len(files[1]) = 1 /\ Len(files[2]) = 1
     /\ files[1][1] \in BaseKana /\ files[2][1] \in BaseKana
     /\ GojuonPos(files[1][1]) < GojuonPos(files[2][1]))
    => /\ KeyLess(sortResult.list[1], sortResult.list[2]) = "T"
       /\ SortedLocale(<< <<"hi:sa">>, <<"hi:a">>, <<"hi:ka">> >>) =
              [ok |-> TRUE, list |-> << <<"hi:a">>, <<"hi:ka">>, <<"hi:sa">> >>]

\* The keys of katakana a and hiragana ka have been computed, and the key of
\* a is the smaller, against the code points of the two characters.
C15_Witness ==
    /\ sortPc = "lkeys"
    /\ files = << <<"ka:a">>, <<"hi:ka">> >>
    /\ CodePoint("ka:a") > CodePoint("hi:ka")
    /\ KeyLess(sortResult.list[1], sortResult.list[2]) = "T"

\* c and d are the hiragana and the katakana form of one sound: the
\* katakana block repeats the hiragana block 96 code points higher.
OtherScript(c, d) ==
    \/ CodePoint(d) = CodePoint(c) + 96
    \/ CodePoint(c) = CodePoint(d) + 96

\* t is s with some of its table kana converted to the other script.
SameSounds(s, t) ==
    /\ Len(s) = Len(t)
    /\ \A i \in 1..Len(s) :
          \/ s[i] = t[i]
          \/ s[i] \in TableKana /\ t[i] \in TableKana /\ OtherScript(s[i], t[i])

DigitFree(s) == \A i \in 1..Len(s) : ~IsDigitChar(s[i])

\* C16: every kana of the table has its other-script form in the table,
\* under the same bucket; and the locale keys of two digit-free strings that
\* differ only in the script of table kana are equal.
C16_ScriptInvariant ==
    sortPc = "lkeys" =>
        /\ (Len(files[1]) = 1 /\ files[1][1] \in TableKana) =>
              \E d \in TableKana :
                  /\ OtherScript(files[1][1], d)
                  /\ JapaneseCharOrder(d) = JapaneseCharOrder(files[1][1])
        /\ (/\ DigitFree(files[1]) /\ DigitFree(files[2])
            /\ SameSounds(files[1], files[2]))
           => sortResult.list[1] = sortResult.list[2]

\* The locale keys of hiragana ka + a and katakana ka + a have been computed
\* and are equal.
C16_Witness ==
    /\ sortPc = "lkeys"
    /\ files = << <<"hi:ka", "a">>, <<"ka:ka", "a">> >>
    /\ sortResult.list[1] = sortResult.list[2]
    /\ sortResult.list[1].str = <<"b", "0", "1", "a">>

\* The fragments of the locale key of a digit-free string, one per
\* character, before they are joined.
Fragments(s) ==
    [i \in 1..Len(s) |-> JapaneseCharOrder(Normalize(Lower(s))[i])]

\* Python's < on two lists of strings.
RECURSIVE FragmentsLess(_, _)
FragmentsLess(f, g) ==
    IF g = <<>> THEN FALSE
    ELSE IF f = <<>> THEN TRUE
    ELSE IF f[1] # g[1] THEN TextLess(f[1], g[1])
    ELSE FragmentsLess(Tail(f), Tail(g))

\* C19: the joined locale keys of two digit-free strings compare, as
\* strings, the way the lists of their per-character fragments compare
\* element by element.
C19_JoinedKeyComparesAsFragments ==
    (sortPc = "lkeys" /\ DigitFree(files[1]) /\ DigitFree(files[2])) =>
        (TextLess(sortResult.list[1].str, sortResult.list[2].str)
         <=> FragmentsLess(Fragments(files[1]), Fragments(files[2])))

\* The voiced and semi-voiced kana, each row with the number of the row of
\* the unvoiced kana it belongs to (g to k, z to s, d to t, b and p to h).
HiraganaVoicedRows ==
    << [of |-> 2, row |-> <<"hi:ga", "hi:gi", "hi:gu", "hi:ge", "hi:go">>],
       [of |-> 3, row |-> <<"hi:za", "hi:zi", "hi:zu", "hi:ze", "hi:zo">>],
       [of |-> 4, row |-> <<"hi:da", "hi:di", "hi:du", "hi:de", "hi:do">>],
       [of |-> 6, row |-> <<"hi:ba", "hi:bi", "hi:bu", "hi:be", "hi:bo">>],
       [of |-> 6, row |-> <<"hi:pa", "hi:pi", "hi:pu", "hi:pe", "hi:po">>] >>

KatakanaVoicedRows ==
    << [of |-> 2, row |-> <<"ka:ga", "ka:gi", "ka:gu", "ka:ge", "ka:go">>],
       [of |-> 3, row |-> <<"ka:za", "ka:zi", "ka:zu", "ka:ze", "ka:zo">>],
       [of |-> 4, row |-> <<"ka:da", "ka:di", "ka:du", "ka:de", "ka:do">>],
       [of |-> 6, row |-> <<"ka:ba", "ka:bi", "ka:bu", "ka:be", "ka:bo">>],
       [of |-> 6, row |-> <<"ka:pa", "ka:pi", "ka:pu", "ka:pe", "ka:po">>] >>

\* y is the voiced or semi-voiced form number i of a row whose unvoiced kana
\* number i is x; next is the unvoiced kana that follows x in its row.
VoicedAfter(x, y, rows, vrows) ==
    \E r \in 1..Len(vrows), i \in 1..5 :
        /\ vrows[r].row[i] = y
        /\ rows[vrows[r].of][i] = x
        /\ KeyLess(JapaneseSortKey(<< x >>), JapaneseSortKey(<< y >>)) = "T"
        /\ i < 5 =>
              KeyLess(JapaneseSortKey(<< y >>),
                      JapaneseSortKey(<< rows[vrows[r].of][i + 1] >>)) = "T"

IsVoicedOf(x, y, rows, vrows) ==
    \E r \in 1..Len(vrows), i \in 1..5 :
        vrows[r].row[i] = y /\ rows[vrows[r].of][i] = x

\* C20: the bucket of a voiced or semi-voiced kana is greater than the
\* bucket of its unvoiced base and smaller than the bucket of the next
\* unvoiced kana of the row (ka < ga < ki).
C20_VoicedRightAfterBase ==
    (sortPc = "lkeys" /\ Len(files[1]) = 1 /\ Len(files[2]) = 1) =>
        /\ IsVoicedOf(files[1][1], files[2][1], HiraganaRows, HiraganaVoicedRows)
           => VoicedAfter(files[1][1], files[2][1], HiraganaRows, HiraganaVoicedRows)
        /\ IsVoicedOf(files[1][1], files[2][1], KatakanaRows, KatakanaVoicedRows)
           => VoicedAfter(files[1][1], files[2][1], KatakanaRows, KatakanaVoicedRows)

\* C21: the locale key of a string is computed from its lower-cased and
\* normalized form n: the natural key of n when n holds a digit, the joined
\* kana buckets of n otherwise.
C21_NormalizedThenDigits ==
    sortPc = "lkeys" =>
        \A i \in 1..2 :
            LET n == Normalize(Lower(files[i]))
            IN  IF DigitFree(n)
                THEN sortResult.list[i] =
                         [kind |-> "str", items |-> <<>>, str |-> JoinFragments(n)]
                ELSE sortResult.list[i] = NaturalSortKey(n)

\* The small kana, in either script.
SmallKana ==
    { "hi:xa", "hi:xi", "hi:xu", "hi:xe", "hi:xo", "hi:xtu",
      "hi:xya", "hi:xyu", "hi:xyo", "hi:xwa",
      "ka:xa", "ka:xi", "ka:xu", "ka:xe", "ka:xo", "ka:xtu",
      "ka:xya", "ka:xyu", "ka:xyo", "ka:xwa" }

\* The full-size form of a small kana: the next code point.
FullSize(c) == CHOOSE d \in TableKana : CodePoint(d) = CodePoint(c) + 1

\* t is s with some of its small kana replaced by their full-size form.
Enlarged(s, t) ==
    /\ Len(s) = Len(t)
    /\ \A i \in 1..Len(s) :
          t[i] = s[i] \/ (s[i] \in SmallKana /\ t[i] = FullSize(s[i]))

\* C22: every small kana is in the table under the bucket of its full-size
\* form, and replacing small kana by their full-size forms leaves the locale
\* key of a digit-free string as it is.
C22_SmallKanaAsFullSize ==
    sortPc = "lkeys" =>
        /\ (Len(files[1]) = 1 /\ files[1][1] \in SmallKana) =>
              /\ files[1][1] \in TableKana
              /\ JapaneseCharOrder(files[1][1]) =
                     JapaneseCharOrder(FullSize(files[1][1]))
        /\ (/\ DigitFree(files[1]) /\ DigitFree(files[2])
            /\ Enlarged(files[1], files[2]))
           => sortResult.list[1] = sortResult.list[2]

\* The locale keys of small tsu + a and of tsu + a have been computed and
\* are equal.
C22_Witness ==
    /\ sortPc = "lkeys"
    /\ files = << <<"hi:xtu", "a">>, <<"hi:tu", "a">> >>
    /\ sortResult.list[1] = sortResult.list[2]
    /\ sortResult.list[1].str = <<"d", "0", "3", "a">>

\* C30: the natural key of every string is a list of an odd number of
\* components, text at the odd places and integers at the even places, and
\* comparing the natural keys of two strings raises no TypeError.
C30_AlternatingKey ==
    sortPc = "nkeys" =>
        /\ \A i \in 1..2 :
              LET k == sortResult.list[i]
              IN  /\ k.kind = "list"
                  /\ Len(k.items) % 2 = 1
                  /\ \A j \in 1..Len(k.items) : k.items[j].int <=> (j % 2 = 0)
        /\ KeyLess(sortResult.list[1], sortResult.list[2]) # "E"

----------------------------------------------------------------------------
(* Properties of the bookmarks *)

Naruto == <<"N", "a", "r", "u", "t", "o">>
Vol3Pdf == <<"v", "o", "l", "3", ".", "p", "d", "f">>
NarutoVol3 == <<"N", "a", "r", "u", "t", "o", "/", "v", "o", "l", "3", ".", "p", "d", "f">>

\* C17: while every save has succeeded, loading the bookmarks file gives
\* exactly the bookmarks in memory; every key is "<series>/<volume>", every
\* page the integer that was set; the file holds the whole map and nothing
\* else; and a map with Naruto / vol3.pdf at page 41 is written and read
\* back as {"Naruto/vol3.pdf": 41}.
C17_BookmarksRoundTrip ==
    saveOk =>
        /\ LoadBookmarks(bookmarksFile) = bookmarks
        /\ \A k \in DOMAIN bookmarks :
              /\ \E m \in Mangas, v \in Volumes : k = m \o <<"/">> \o v
              /\ bookmarks[k] \in Pages
        /\ bookmarksFile.whole =>
              /\ Len(bookmarksFile.text) = Cardinality(DOMAIN bookmarks)
              /\ \A i \in 1..Len(bookmarksFile.text) :
                    /\ bookmarksFile.text[i].key \in DOMAIN bookmarks
                    /\ IntOf(bookmarksFile.text[i].page) =
                           bookmarks[bookmarksFile.text[i].key]
        /\ LoadBookmarks(WrittenFile(JsonDump(
                [k \in {BookmarkKey(Naruto, Vol3Pdf)} |-> 41]))) =
              [k \in {NarutoVol3} |-> 41]

\* After bookmarks were added and one removed again, the file holds the one
\* bookmark left, at the two-digit page 10.
C17_Witness ==
    /\ saveOk
    /\ bookmarks = [k \in { <<"a", "/", "v", "2">> } |-> 10]
    /\ bookmarksFile.whole
    /\ bookmarksFile.text = << [key |-> <<"a", "/", "v", "2">>, page |-> <<"1", "0">>] >>

----------------------------------------------------------------------------
(* Properties of the page viewer *)

\* "<current_manga>/<current_volume>"
CurrentKey == current_manga \o <<"/">> \o current_volume

\* C23: whenever pdf_document is set, 0 <= current_page < total_pages.
C23_PageInRange ==
    pdf_document.open => 0 <= current_page /\ current_page < total_pages

\* C24: a step creates or overwrites a bookmark only for the volume whose
\* document is open in the viewer after the step.
C24_BookmarkOnlyForOpenVolume ==
    [][\A k \in DOMAIN bookmarks' :
          (k \notin DOMAIN bookmarks \/ bookmarks'[k] # bookmarks[k]) =>
              /\ pdf_document'.open
              /\ k = pdf_document'.manga \o <<"/">> \o pdf_document'.volume]_vars

\* C25: after an operation that displayed a page, the bookmark of the
\* current manga and volume is the current page; after a load that declined
\* to resume and displayed a page it is page 0.
C25_DisplayedPageIsBookmarked ==
    viewerOp.shown =>
        /\ pdf_document.open
        /\ CurrentKey \in DOMAIN bookmarks
        /\ bookmarks[CurrentKey] = current_page
        /\ viewerOp.op = "load_pdf_no" => bookmarks[CurrentKey] = 0

\* A page turn has displayed page 1 of a volume and bookmarked it, and the
\* bookmarks list, last refreshed when the bookmark was removed, has no item
\* for it.
C25_Witness ==
    /\ viewerOp = Op("next_page", TRUE)
    /\ current_page = 1
    /\ bookmarks[CurrentKey] = 1
    /\ CurrentKey \notin bookmarks_list
    /\ bookmarks_list # {}

\* The fields of the viewer.
viewerFields ==
    <<current_manga, current_volume, pdf_document, current_page, total_pages>>

----------------------------------------------------------------------------
(* Properties of the favorites *)

\* C29: the list has no duplicates after every call; add_favorite of a name
\* that is present, and remove_favorite of one that is absent, return False
\* and change neither the list nor the file; add_favorite of a new name
\* puts it at the end and remove_favorite takes the name out, the other
\* names keeping their order; the file is written only by a call that
\* changed the list.
C29_FavoritesNoDuplicates ==
    [][/\ NoDuplicates(favorites')
       /\ favOp'.op = "add" =>
            IF \E i \in 1..Len(favorites) : favorites[i] = favOp'.name
            THEN ~favOp'.ret /\ ~favOp'.wrote /\ UNCHANGED <<favorites, favoritesFile>>
            ELSE favOp'.ret /\ favorites' = favorites \o << favOp'.name >>
       /\ favOp'.op = "remove" =>
            IF \E i \in 1..Len(favorites) : favorites[i] = favOp'.name
            THEN /\ favOp'.ret
                 /\ favorites' = SelectSeq(favorites, LAMBDA x : x # favOp'.name)
            ELSE ~favOp'.ret /\ ~favOp'.wrote /\ UNCHANGED <<favorites, favoritesFile>>
       /\ favOp'.wrote => favorites' # favorites
       /\ favoritesFile' # favoritesFile => favOp'.wrote
      ]_vars

\* add_favorite of a name that is in the list returned False and the list
\* of three names is as it was.
C29_Witness ==
    /\ favOp = FavOp("add", <<"b">>, FALSE, FALSE)
    /\ favorites = << <<"c">>, <<"b">>, <<"a">> >>
    /\ favoritesFile = WrittenFile(favorites)

----------------------------------------------------------------------------
(* Properties of the thumbnail loader *)

BadKinds == {"missing", "corrupt"}

\* The cache file name the spec gives a path: the hash of the path string
\* plus ".png".
HashPng(pdf_path) == << <<"md5", pdf_path>>, ".png" >>

\* Loader l has finished and the disk has not been changed from outside
\* since the request was made.
DoneUndisturbed(l) == loaders[l].pc = "done" /\ loaders[l].born = envChanges

\* Loader l opened a document that has no page: it rendered nothing, closed
\* the document and ended.
ZeroPageRun(l) ==
    /\ loaders[l].pc = "done"
    /\ loaders[l].handle = "closed"
    /\ loaders[l].pix = Empty

\* C3: every finished run of a loader has emitted thumbnail_loaded exactly
\* once (cache hit, fresh render, zero-page document, exception).
C3_DeliversOnce ==
    \A l \in LoaderIds : loaders[l].pc = "done" => loaders[l].emits = 1

\* C4: a run on a document that opens but has zero pages delivers the
\* empty pixmap.
C4_ZeroPagesDeliverEmpty ==
    \A l \in LoaderIds :
        ZeroPageRun(l) => loaders[l].emits = 1 /\ loaders[l].result = Empty

\* C5: a run that opened the document has closed it when it ends.
C5_HandleClosed ==
    \A l \in LoaderIds : loaders[l].pc = "done" => loaders[l].handle # "open"

C7_AlwaysOneNewFile ==
    \A l \in LoaderIds :
        (/\ loaders[l].pc = "done"
         /\ \A k \in LoaderIds \ {l} : loaders[k].path # loaders[l].path)
        => loaders[l].created = {HashPng(loaders[l].path)}

\* C7 amended: a request creates no file but the one named by the hash of
\* its path; it creates that file only by saving a pixmap it rendered; and a
\* finished request for a path no other request names whose save wrote the
\* file has created exactly that one file.
C7_CreatesOwnFile ==
    \A l \in LoaderIds :
        /\ loaders[l].created \subseteq {HashPng(loaders[l].path)}
        /\ loaders[l].created # {} =>
              /\ loaders[l].saved /\ ~loaders[l].hit
              /\ loaders[l].pix # Empty /\ loaders[l].pix.src = loaders[l].path
        /\ (/\ loaders[l].pc = "done" /\ loaders[l].saved
            /\ \A k \in LoaderIds \ {l} : loaders[k].path # loaders[l].path)
           => loaders[l].created = {HashPng(loaders[l].path)}

\* The one request of a run has rendered its document and left the one
\* file of the cache directory, under the hash of its path.
C7_Witness ==
    \E l \in LoaderIds :
        /\ loaders[l].pc = "done"
        /\ loaders[l].created = {HashPng(loaders[l].path)}
        /\ DOMAIN cacheFiles = {HashPng(loaders[l].path)}
        /\ cacheFiles[HashPng(loaders[l].path)].bmp = Bitmap(loaders[l].path, 1)

\* C8 as stated: a request for a document that is missing or unreadable
\* delivers the empty pixmap, once, and no cache file of its path is left.
C8_BadDocGivesEmpty ==
    \A l \in LoaderIds :
        (DoneUndisturbed(l) /\ docs[loaders[l].path].kind \in BadKinds) =>
            /\ loaders[l].emits = 1
            /\ loaders[l].result = Empty
            /\ HashPng(loaders[l].path) \notin DOMAIN cacheFiles

\* C8 amended: a request for a document that is missing or unreadable
\* delivers once, creates no cache file and opens no document; without a
\* cache file of its path it delivers the empty pixmap from the except
\* clause; with a written cache file it delivers that file's pixmap.
C8_BadDocUncached ==
    \A l \in LoaderIds :
        (DoneUndisturbed(l) /\ docs[loaders[l].path].kind \in BadKinds) =>
            /\ loaders[l].emits = 1
            /\ loaders[l].created = {}
            /\ loaders[l].handle = "none"
            /\ ~loaders[l].hit => loaders[l].result = Empty /\ loaders[l].raised
            /\ loaders[l].hit =>
                  IF loaders[l].warm
                  THEN loaders[l].result.src = loaders[l].path
                  ELSE loaders[l].result = Empty

\* A request for a missing or unreadable document without a cache file has
\* ended in the except clause with the empty pixmap.
C8_Witness ==
    \E l \in LoaderIds :
        /\ DoneUndisturbed(l) /\ docs[loaders[l].path].kind \in BadKinds
        /\ ~loaders[l].hit /\ loaders[l].raised
        /\ loaders[l].emits = 1 /\ loaders[l].result = Empty
        /\ DOMAIN cacheFiles = {}

\* C12: a request made while the cache directory is missing and cannot be
\* created ends in the except clause: it delivers the empty pixmap, once,
\* opens no document and creates no file.
C12_NoCacheDirGivesEmpty ==
    \A l \in LoaderIds :
        (DoneUndisturbed(l) /\ cacheDir = "blocked") =>
            /\ loaders[l].raised
            /\ loaders[l].emits = 1
            /\ loaders[l].result = Empty
            /\ loaders[l].handle = "none"
            /\ loaders[l].created = {}

\* A request for a good document, made with the cache directory missing
\* and not creatable, has delivered the empty pixmap.
C12_Witness ==
    \E l \in LoaderIds :
        /\ DoneUndisturbed(l) /\ cacheDir = "blocked"
        /\ docs[loaders[l].path].kind = "ok"
        /\ loaders[l].raised /\ loaders[l].emits = 1
        /\ loaders[l].result = Empty
        /\ Len(queue) > 0 /\ queue[Len(queue)] = EmitEvent(l, Empty)

\* C13: a request for a good document made while the cache directory
\* cannot be created or cannot be written renders the page and delivers the
\* rendered pixmap, once, and creates no file.
C13_NoCacheStillRenders ==
    \A l \in LoaderIds :
        (/\ DoneUndisturbed(l) /\ cacheDir \in {"blocked", "readonly"}
         /\ docs[loaders[l].path].kind = "ok")
        => /\ loaders[l].emits = 1
           /\ loaders[l].result # Empty
           /\ loaders[l].result.src = loaders[l].path
           /\ loaders[l].created = {}

\* The loaders that were started for the path of loader l.
SamePath(l) == {k \in LoaderIds : loaders[k].path = loaders[l].path}

\* C11: when every request for one path, two or more of them, has ended with
\* the disk left alone, and the cache file of the path was created by one of
\* them, the cache directory holds exactly one file for the path, completely
\* written, whose pixmap is the thumbnail of the path's document and the
\* pixmap every one of them that wrote had rendered.
C11_RacingWritersOneFile ==
    \A l \in LoaderIds :
        (/\ Cardinality(SamePath(l)) >= 2
         /\ \A k \in SamePath(l) : DoneUndisturbed(k)
         /\ \E k \in SamePath(l) : loaders[k].created # {})
        => /\ HashPng(loaders[l].path) \in DOMAIN cacheFiles
           /\ \A n \in DOMAIN cacheFiles :
                 n[1] = <<"md5", loaders[l].path>> => n = HashPng(loaders[l].path)
           /\ cacheFiles[HashPng(loaders[l].path)].writers = {}
           /\ cacheFiles[HashPng(loaders[l].path)].bmp =
                 Bitmap(loaders[l].path, docs[loaders[l].path].ver)
           /\ \A k \in SamePath(l) :
                 loaders[k].saved =>
                     loaders[k].pix = cacheFiles[HashPng(loaders[l].path)].bmp

\* Two requests for one path both missed the cache, both rendered and both
\* wrote the file, the second onto the file the first had created.
C11_Witness ==
    \E l1, l2 \in LoaderIds :
        /\ l1 # l2 /\ loaders[l1].path = loaders[l2].path
        /\ loaders[l1].pc = "done" /\ loaders[l2].pc = "done"
        /\ ~loaders[l1].hit /\ ~loaders[l2].hit
        /\ loaders[l1].saved /\ loaders[l2].saved
        /\ loaders[l1].created = {HashPng(loaders[l1].path)}
        /\ loaders[l2].created = {}
        /\ cacheFiles[HashPng(loaders[l1].path)].writers = {}
        /\ cacheFiles[HashPng(loaders[l1].path)].bmp = Bitmap(loaders[l1].path, 1)

\* C26: a loader of a good document that finds no cache directory, with
\* nothing changed on the disk from outside since its request and the
\* directory made by now, delivers a rendered pixmap, once, whichever loader
\* made the directory.
C26_RacingMakeDirs ==
    \A l \in LoaderIds :
        (/\ DoneUndisturbed(l) /\ docs[loaders[l].path].kind = "ok"
         /\ cacheDir = "present" /\ ~loaders[l].hit)
        => /\ loaders[l].emits = 1
           /\ loaders[l].result # Empty

\* C27: a loader of a good document that takes the cached file, with
\* nothing changed on the disk from outside since its request, delivers a
\* whole thumbnail, never the null pixmap of a file still being written.
C27_HitLoadsWholeFile ==
    \A l \in LoaderIds :
        (/\ DoneUndisturbed(l) /\ docs[loaders[l].path].kind = "ok"
         /\ loaders[l].hit)
        => loaders[l].result # Empty

----------------------------------------------------------------------------
(* Properties of the bookshelf *)

\* C9: a delivery that reaches the UI thread after its slot has been
\* destroyed is discarded: the setter returns without raising and without
\* touching a slot.
C9_StaleDiscarded ==
    \A l \in LoaderIds :
        \A n \in 1..Len(loaders[l].handled) :
            loaders[l].handled[n].state = "deleted" =>
                loaders[l].handled[n].out = "discarded"

\* C10: whatever the order in which loaders finish and deliveries are
\* handled, a slot takes deliveries only from loaders that were started for
\* it and for its own file, and the pixmap it shows is one of its own file.
C10_OwnSlotOnly ==
    \A i \in SlotIds :
        /\ \A l \in slots[i].from :
              loaders[l].slot = i /\ loaders[l].path = slots[i].path
        /\ slots[i].shown.pix # Empty => slots[i].shown.pix.src = slots[i].path

\* Of two loaders of one refresh of the volume grid the later one has
\* delivered to its slot while the earlier one is still running and its slot
\* still blank.
C10_Witness ==
    \E l1, l2 \in LoaderIds :
        /\ l1 < l2 /\ loaders[l1].slot < loaders[l2].slot
        /\ slots[loaders[l1].slot].kind = "volume"
        /\ slots[loaders[l2].slot].kind = "volume"
        /\ slots[loaders[l1].slot].state = "live"
        /\ slots[loaders[l2].slot].state = "live"
        /\ loaders[l1].pc # "done"
        /\ slots[loaders[l1].slot].shown.text = "blank"
        /\ l2 \in slots[loaders[l2].slot].from
        /\ slots[loaders[l2].slot].shown.pix = Bitmap(loaders[l2].path, 1)

====
